---- MODULE Spec2Model ----
(***************************************************************************)
(* Pinball (src/main.py): the game loop of PinballGame, the GameState      *)
(* record, the collision handlers and lifecycle of PinballTable, and the   *)
(* DifficultyManager.                                                      *)
(*                                                                         *)
(* Time.  Every time value (the clock pygame.time.get_ticks()/1000.0, the  *)
(* frame delta dt, ball_saver_timer, last_hit_time) is counted in half     *)
(* seconds: Sec(n) is n seconds.  On this grid the float arithmetic of the *)
(* source is exact (multiples of 0.5 are binary fractions), so integers    *)
(* compute what the code computes.  run() passes dt = 1.0/FPS; the model   *)
(* draws dt from 1..MaxDt half seconds, i.e. it takes update(dt) as the    *)
(* function of dt it is.  The wall clock `now` advances on its own.        *)
(*                                                                         *)
(* Physics.  pymunk is outside the repository.  A ball is kept as the      *)
(* region its position lies in ("lane": the plunger lane, "field": the     *)
(* play field, "off": y > 800 or x < -50) and its vertical velocity while  *)
(* it is in the lane.  While update runs its PHYSICS_SUBSTEPS calls of     *)
(* space.step (phase "step") the engine moves the ball between regions and *)
(* runs begin-contact callbacks, each a PhysicsStep; StepsDone ends them.  *)
(***************************************************************************)
EXTENDS Integers, Sequences, FiniteSets, TLC

VARIABLES
  running,            \* PinballGame.running
  current_index,      \* DifficultyManager.current_index (0-based)
  difficulty,         \* GameState.difficulty
  table_difficulty,   \* PinballTable.difficulty
  space_gravity,      \* PinballGame.space.gravity
  score,              \* GameState.score
  balls_remaining,    \* GameState.balls_remaining
  ball_in_play,       \* GameState.ball_in_play
  game_over,          \* GameState.game_over
  ball_saver_active,  \* GameState.ball_saver_active
  ball_saver_timer,   \* GameState.ball_saver_timer (half seconds)
  plunger_power,      \* GameState.plunger_power
  plunger_charging,   \* GameState.plunger_charging
  plunger_direction,  \* GameState.plunger_direction
  combo_multiplier,   \* GameState.combo_multiplier
  last_hit_time,      \* GameState.last_hit_time (half seconds)
  asking_for_name,    \* GameState.asking_for_name
  player_name,        \* GameState.player_name
  name_submitted,     \* GameState.name_submitted
  balls,              \* PinballTable.balls: sequence of [pos, vy]
  plunger_vy,         \* PinballTable.plunger_body.velocity.y
  plunger_raised,     \* PinballTable.plunger_body.position.y < plunger_min_y
  now,                \* pygame.time.get_ticks() / 1000.0 (half seconds)
  phase,              \* position in run(): "events" (handle_events), "step" (the substeps of update), "done"
  prev_hit_time,      \* history: clock of the latest bumper contact, -1 before the first
  same_game,          \* history: that contact was on the present GameState
  since_spawn,        \* history: sum of the dt of the update calls since the latest create_ball, counted up to spawn_duration; -1 before the first
  spawn_duration,     \* history: ball_saver_duration of the active preset at that create_ball
  spawn_reset,        \* history: PinballGame.reset() has run since that create_ball
  ball_x,             \* x of the most recent ball's body.position, kept in SpecLaunch
  ball_y,             \* y of the most recent ball's body.position, kept in SpecLaunch
  frame_log,          \* history: what run() has done in the present frame, kept in SpecFrame
  sound_mode,         \* the table's sound_manager: "absent" (None), "disabled" (enabled is False), "enabled", "failing" (enabled, and playback raises)
  sound_out,          \* history: what the latest request for a sound came to
  scores,             \* HighScoreBoard.scores: sequence of [name, score]
  game_state_ref,     \* identity of PinballGame.game_state: the number of GameState objects made before it
  table_game_state_ref, \* identity of PinballTable.game_state
  space_ref,          \* identity of PinballGame.space
  table_space_ref,    \* identity of PinballTable.space
  ball_vel,           \* <<x, y>> of the body.velocity of the ball at a flipper, kept in SpecFlipper
  flipper_vel,        \* body.angular_velocity of that flipper
  contact,            \* what the ball touches at present: "none", "bumper" or "target", kept in SpecContact
  balls_lost,         \* history: the balls removed with the ball saver inactive since GameState was last created or reset, kept in SpecLost
  adds,               \* history: the add_score calls since GameState was last created or reset, kept in SpecSubmit
  set_index,          \* <<index>> when the latest DifficultyManager call was set_difficulty(index), <<>> otherwise
  drain_contact       \* history: the latest ball-drain contact: "none"; "saved" or "lost" until the next update, "saved_reset" or "lost_reset" if reset() ran in between; "saved_done" or "lost_done" once that update has run

gsvars == <<difficulty, score, balls_remaining, ball_in_play, game_over,
            ball_saver_active, ball_saver_timer, plunger_power, plunger_charging,
            plunger_direction, combo_multiplier, last_hit_time, asking_for_name,
            player_name, name_submitted>>

tablevars == <<table_difficulty, space_gravity, balls, plunger_vy, plunger_raised>>

framevars == <<running, current_index, phase>>

histvars == <<prev_hit_time, same_game>>

spawnvars == <<since_spawn, spawn_duration, spawn_reset, drain_contact>>

launchvars == <<ball_x, ball_y>>

refvars == <<game_state_ref, table_game_state_ref, space_ref, table_space_ref>>

contactvars == <<ball_vel, flipper_vel, contact>>

ghostvars == <<balls_lost, adds>>

sidevars == <<set_index, sound_mode, sound_out, scores, refvars, ghostvars, contactvars>>

\* the variables that only some specifications move
auxvars == <<spawnvars, launchvars, frame_log, sidevars>>

vars == <<framevars, gsvars, tablevars, now, histvars, auxvars>>

(***************************************************************************)
(* Bounds of the model.                                                    *)
(***************************************************************************)
MaxClock == 2
MaxScore == 500
MaxDt == 2
MaxRallyClock == 8
MaxRallyScore == 3000
MaxSaverScore == 0

\* SpecDifficulty: set_difficulty is called with an index in -MaxIndexArg..MaxIndexArg
MaxIndexArg == 60

\* SpecSound: the score and the clock range up to these
MaxSoundScore == 500
MaxSoundClock == 1

\* SpecBoard: add_score is called with a score in 0..MaxBoardScore
MaxBoardScore == 1

\* SpecEntry: the score ranges up to MaxEntryScore
MaxEntryScore == 500

\* SpecLife: the score ranges up to MaxLifeScore; MaxRebuilds difficulty
\* switches are followed
MaxLifeScore == 200
MaxRebuilds == 3

\* SpecFlipper: the ball's velocity components are 0 or +-10 * MaxVel
MaxVel == 10

\* SpecContact: the score and the clock range up to these
MaxContactScore == 700
MaxContactClock == 1

\* SpecLost: the score ranges up to MaxLostScore
MaxLostScore == 200

MaxSubmitScore == 200

MaxSubmits == 2

MaxKeysScore == 200

(***************************************************************************)
(* Constants of the program.                                               *)
(***************************************************************************)
Sec(n) == 2 * n

PHYSICS_SUBSTEPS == 5

Min(a, b) == IF a < b THEN a ELSE b

\* score_multiplier is kept in tenths (0.8 -> 8); IntTimes(k, m) is int(k * m).
IntTimes(k, tenths) == (k * tenths) \div 10

DIFFICULTY_EASY ==
  [name |-> "EASY", plunger_max_power |-> 2800, plunger_charge_rate |-> 4000,
   starting_balls |-> 5, ball_saver_duration |-> Sec(8), score_multiplier |-> 8,
   gravity |-> <<0, 3200>>, flipper_impulse |-> 100000]

DIFFICULTY_NORMAL ==
  [name |-> "NORMAL", plunger_max_power |-> 2500, plunger_charge_rate |-> 5000,
   starting_balls |-> 3, ball_saver_duration |-> Sec(5), score_multiplier |-> 10,
   gravity |-> <<0, 4000>>, flipper_impulse |-> 90000]

DIFFICULTY_HARD ==
  [name |-> "HARD", plunger_max_power |-> 2200, plunger_charge_rate |-> 6000,
   starting_balls |-> 3, ball_saver_duration |-> Sec(3), score_multiplier |-> 15,
   gravity |-> <<0, 5600>>, flipper_impulse |-> 80000]

DIFFICULTY_PRESETS == <<DIFFICULTY_EASY, DIFFICULTY_NORMAL, DIFFICULTY_HARD>>

\* DifficultyManager.current
Current(index) == DIFFICULTY_PRESETS[index + 1]

\* variant of CycleIndex: no wrap-around after the last preset
CycleIndex_NoWrap(index) ==
  IF index + 1 < Len(DIFFICULTY_PRESETS) THEN index + 1 ELSE index

\* DifficultyManager.cycle_difficulty: the next index
CycleIndex(index) == (index + 1) % Len(DIFFICULTY_PRESETS)

(***************************************************************************)
(* GameState.__init__(difficulty): the value every field gets.             *)
(* GameState.reset(difficulty) calls __init__ again on the same object.    *)
(***************************************************************************)
GameStateInit(d) ==
  /\ difficulty' = d
  /\ score' = 0
  /\ balls_remaining' = d.starting_balls
  /\ ball_in_play' = FALSE
  /\ game_over' = FALSE
  /\ ball_saver_active' = FALSE
  /\ ball_saver_timer' = 0
  /\ plunger_power' = 0
  /\ plunger_charging' = FALSE
  /\ plunger_direction' = 1
  /\ combo_multiplier' = 1
  /\ last_hit_time' = 0
  /\ asking_for_name' = FALSE
  /\ player_name' = <<>>
  /\ name_submitted' = FALSE

\* PinballGame.__init__: DifficultyManager() starts at NORMAL, then _init_game().
InitState ==
  /\ running = TRUE
  /\ current_index = 1
  /\ set_index = <<>>
  /\ balls_lost = 0
  /\ adds = 0
  /\ ball_vel = <<0, 0>>
  /\ flipper_vel = 0
  /\ contact = "none"
  /\ game_state_ref = 0
  /\ table_game_state_ref = 0
  /\ space_ref = 0
  /\ table_space_ref = 0
  /\ difficulty = Current(1)
  /\ score = 0
  /\ balls_remaining = Current(1).starting_balls
  /\ ball_in_play = FALSE
  /\ game_over = FALSE
  /\ ball_saver_active = FALSE
  /\ ball_saver_timer = 0
  /\ plunger_power = 0
  /\ plunger_charging = FALSE
  /\ plunger_direction = 1
  /\ combo_multiplier = 1
  /\ last_hit_time = 0
  /\ asking_for_name = FALSE
  /\ player_name = <<>>
  /\ name_submitted = FALSE
  /\ table_difficulty = Current(1)
  /\ space_gravity = Current(1).gravity
  /\ balls = <<>>
  /\ plunger_vy = 0
  /\ plunger_raised = FALSE
  /\ now = 0
  /\ phase = "events"
  /\ prev_hit_time = -1
  /\ same_game = FALSE
  /\ since_spawn = -1
  /\ spawn_duration = 0
  /\ spawn_reset = FALSE
  /\ drain_contact = "none"
  /\ ball_x = 535
  /\ ball_y = 710
  /\ frame_log = <<>>

\* the state after PinballGame.__init__, with the mixer available and no
\* score file
Init ==
  /\ InitState
  /\ sound_mode = "enabled"
  /\ sound_out = "none"
  /\ scores = <<>>

(***************************************************************************)
(* Collision handlers of PinballTable.                                     *)
(***************************************************************************)

\* variant of ComboAfterHit: no min(..., 5)
ComboAfterHit_Uncapped(combo, elapsed) ==
  IF elapsed < Sec(2) THEN combo + 1 ELSE 1

\* variant of ComboAfterHit: a gap of exactly 2.0 s still counts
ComboAfterHit_Inclusive(combo, elapsed) ==
  IF elapsed <= Sec(2) THEN Min(combo + 1, 5) ELSE 1

\* _on_bumper_hit, the combo update: elapsed = current_time - last_hit_time
ComboAfterHit(combo, elapsed) ==
  IF elapsed < Sec(2) THEN Min(combo + 1, 5) ELSE 1

\* _on_bumper_hit: base_score = int(100 * d.score_multiplier)
BumperBase(d) == IntTimes(100, d.score_multiplier)

\* variant of TargetBase: the base of a bumper
TargetBase_AsBumper(d) == IntTimes(100, d.score_multiplier)

\* _on_target_hit: base_score = int(500 * self.difficulty.score_multiplier)
TargetBase(d) == IntTimes(500, d.score_multiplier)

\* variant of ScoreAfterBumper: the points are assigned, not added
ScoreAfterBumper_Assign(s, base, combo_before, combo_after) == base * combo_after

\* variant of ScoreAfterBumper: the points use the combo before the update
ScoreAfterBumper_OldCombo(s, base, combo_before, combo_after) ==
  s + base * combo_before

\* _on_bumper_hit: self.game_state.score += base_score * combo_multiplier,
\* with the combo before and after the update of this hit
ScoreAfterBumper(s, base, combo_before, combo_after) == s + base * combo_after

\* _on_target_hit: self.game_state.score += base_score * combo_multiplier
ScoreAfterTarget(s, base, combo) == s + base * combo

\* _on_bumper_hit on GameState (the impulse on the ball changes its velocity
\* in the field, which the model does not keep)
OnBumperHit(cap) ==
  LET combo == ComboAfterHit(combo_multiplier, now - last_hit_time)
      total == ScoreAfterBumper(score, BumperBase(table_difficulty),
                                combo_multiplier, combo)
  IN
  /\ total <= cap
  /\ combo_multiplier' = combo
  /\ last_hit_time' = now
  /\ score' = total
  /\ UNCHANGED <<difficulty, balls_remaining, ball_in_play, game_over,
                 ball_saver_active, ball_saver_timer, plunger_power,
                 plunger_charging, plunger_direction, asking_for_name,
                 player_name, name_submitted>>
  /\ UNCHANGED <<table_difficulty, space_gravity, balls, plunger_vy>>

\* _on_target_hit
OnTargetHit(cap) ==
  /\ ScoreAfterTarget(score, TargetBase(table_difficulty), combo_multiplier) <= cap
  /\ score' = ScoreAfterTarget(score, TargetBase(table_difficulty), combo_multiplier)
  /\ UNCHANGED <<difficulty, balls_remaining, ball_in_play, game_over,
                 ball_saver_active, ball_saver_timer, plunger_power,
                 plunger_charging, plunger_direction, combo_multiplier,
                 last_hit_time, asking_for_name, player_name, name_submitted>>
  /\ UNCHANGED <<table_difficulty, space_gravity, balls, plunger_vy>>

\* variant of OnDrain: the ball saver is not consulted
OnDrain_NoSaver(i) ==
  /\ balls' = [balls EXCEPT ![i] = [pos |-> "off", vy |-> 0]]
  /\ UNCHANGED <<gsvars, table_difficulty, space_gravity, plunger_vy>>

\* variant of OnDrain: a saved drain starts the ball saver's countdown again
OnDrain_Rearm(i) ==
  /\ balls' = [balls EXCEPT ![i] =
                 IF ball_saver_active THEN [pos |-> "lane", vy |-> 0]
                                      ELSE [pos |-> "off", vy |-> 0]]
  /\ ball_saver_timer' = IF ball_saver_active
                           THEN table_difficulty.ball_saver_duration
                           ELSE ball_saver_timer
  /\ UNCHANGED <<difficulty, score, balls_remaining, ball_in_play, game_over,
                 ball_saver_active, plunger_power, plunger_charging,
                 plunger_direction, combo_multiplier, last_hit_time,
                 asking_for_name, player_name, name_submitted>>
  /\ UNCHANGED <<table_difficulty, space_gravity, plunger_vy>>

\* _on_drain for ball i: back to the launch point (535, 710) with zero
\* velocity while the ball saver is active, else to (-100, -100)
OnDrain(i) ==
  /\ balls' = [balls EXCEPT ![i] =
                 IF ball_saver_active THEN [pos |-> "lane", vy |-> 0]
                                      ELSE [pos |-> "off", vy |-> 0]]
  /\ UNCHANGED <<gsvars, table_difficulty, space_gravity, plunger_vy>>

\* _on_flipper_hit, _on_spinner_hit, _on_wall_hit: a sound, and for a fast
\* flipper a change of the ball's velocity in the field
OnOtherHit ==
  /\ UNCHANGED <<gsvars, table_difficulty, space_gravity, balls, plunger_vy>>

(***************************************************************************)
(* PinballTable operations.                                                *)
(***************************************************************************)

\* is_ball_in_plunger_lane
IsBallInPlungerLane(ball) == ball.pos = "lane"

\* variant of IsAnyBallInPlunger: any ball counts
IsAnyBallInPlunger_AnyBall(bs) == Len(bs) > 0

\* PinballGame._is_any_ball_in_plunger, on a list of balls
IsAnyBallInPlunger(bs) == \E i \in 1..Len(bs) : IsBallInPlungerLane(bs[i])

\* create_ball(): the list of balls afterwards
BallsAfterCreate(bs) == Append(bs, [pos |-> "lane", vy |-> 0])

\* launch_ball(power): whether it acts
LaunchActs(bs, power) ==
  /\ Len(bs) > 0
  /\ power > 0
  /\ IsBallInPlungerLane(bs[Len(bs)])

\* launch_ball(power): launch_velocity
LaunchVelocity(power) == -power * 2

\* variant of LaunchBall: the power is read after it was set to 0
LaunchBall_AfterClear(power) == UNCHANGED <<plunger_vy, balls>>

\* launch_ball(power), on the plunger and the balls
LaunchBall(power) ==
  IF LaunchActs(balls, power)
    THEN /\ plunger_vy' = LaunchVelocity(power)
         /\ balls' = [balls EXCEPT ![Len(balls)].vy = LaunchVelocity(power)]
    ELSE UNCHANGED <<plunger_vy, balls>>

\* variant of SaverAfter: the saver survives a timer of exactly 0
SaverAfter_Inclusive(active, timer, dt) ==
  IF active
    THEN <<(timer - dt) >= 0, timer - dt>>
    ELSE <<active, timer>>

\* update(dt), the ball saver countdown: <<active, timer>> afterwards
SaverAfter(active, timer, dt) ==
  IF active
    THEN <<(timer - dt) > 0, timer - dt>>
    ELSE <<active, timer>>

\* update(dt): balls_to_remove, as indices
OffTable(bs) == {i \in 1..Len(bs) : bs[i].pos = "off"}

\* update(dt): self.balls after the removals
SelectOn(bs) == SelectSeq(bs, LAMBDA b : b.pos # "off")

\* variant of RemainingAfter: the lost ball is counted twice
RemainingAfter_Twice(remaining, k, active) ==
  IF active THEN remaining ELSE remaining - 2 * k

\* variant of RemainingAfter: the ball saver is not consulted
RemainingAfter_IgnoreSaver(remaining, k, active) == remaining - k

\* update(dt): balls_remaining after removing k balls with the saver in state active
RemainingAfter(remaining, k, active) ==
  IF active THEN remaining ELSE remaining - k

\* variant of GameOverAfter: the game ends below zero balls only
GameOverAfter_BelowZero(over, k, active, left) ==
  IF k > 0 /\ ~active /\ left < 0 THEN TRUE ELSE over

\* update(dt): game_over after removing k balls, left being balls_remaining
\* after the decrement
GameOverAfter(over, k, active, left) ==
  IF k > 0 /\ ~active /\ left <= 0 THEN TRUE ELSE over

\* PinballTable.update(dt), on the state after the plunger charge of PinballGame.update
TableUpdate(dt) ==
  LET saver == SaverAfter(ball_saver_active, ball_saver_timer, dt)
      k     == Cardinality(OffTable(balls))
      left  == RemainingAfter(balls_remaining, k, saver[1])
  IN
  /\ IF plunger_raised
       THEN plunger_raised' = FALSE /\ plunger_vy' = 0
       ELSE UNCHANGED <<plunger_raised, plunger_vy>>
  /\ ball_saver_active' = saver[1]
  /\ ball_saver_timer' = saver[2]
  /\ balls' = SelectOn(balls)
  /\ balls_remaining' = left
  /\ ball_in_play' = IF k > 0 /\ ~saver[1] THEN FALSE ELSE ball_in_play
  /\ game_over' = GameOverAfter(game_over, k, saver[1], left)
  /\ UNCHANGED <<table_difficulty, space_gravity>>

(***************************************************************************)
(* PinballGame.update(dt): the plunger charge, table.update(dt), then the  *)
(* PHYSICS_SUBSTEPS calls of space.step, which are the PhysicsStep actions *)
(* that follow.  run() calls it only when the game is not over.            *)
(***************************************************************************)

\* variant of ChargeAfter: no clamp at the lower bound
ChargeAfter_NoFloor(d, power, direction, dt) ==
  LET p == power + ((d.plunger_charge_rate * dt) \div 2) * direction IN
  IF p >= d.plunger_max_power THEN <<d.plunger_max_power, -1>>
  ELSE <<p, direction>>

\* the plunger charge: <<plunger_power, plunger_direction>> afterwards
\* (charge_rate is per second, dt in half seconds)
ChargeAfter(d, power, direction, dt) ==
  LET p == power + ((d.plunger_charge_rate * dt) \div 2) * direction IN
  IF p >= d.plunger_max_power THEN <<d.plunger_max_power, -1>>
  ELSE IF p <= 0 THEN <<0, 1>>
  ELSE <<p, direction>>

UpdateWith(dt) ==
  LET charge == IF plunger_charging
                  THEN ChargeAfter(Current(current_index), plunger_power,
                                   plunger_direction, dt)
                  ELSE <<plunger_power, plunger_direction>>
  IN
  /\ phase = "events"
  /\ ~game_over
  /\ plunger_power' = charge[1]
  /\ plunger_direction' = charge[2]
  /\ TableUpdate(dt)
  /\ phase' = "step"
  /\ UNCHANGED <<running, current_index, now, histvars, difficulty, score,
                 plunger_charging, combo_multiplier, last_hit_time,
                 asking_for_name, player_name, name_submitted>>

\* a frame's call of update, with the frame's dt
Update == \E dt \in 1..MaxDt : UpdateWith(dt)

(***************************************************************************)
(* space.step(sub_dt).  The engine moves the bodies and runs the begin     *)
(* callbacks; what it does to ball i is one of the outcomes below.  The    *)
(* plunger, a kinematic body, moves up while its velocity is negative.     *)
(***************************************************************************)
MoveBall(i, pos) ==
  /\ balls' = [balls EXCEPT ![i] = [pos |-> pos, vy |-> 0]]
  /\ UNCHANGED <<gsvars, table_difficulty, space_gravity, plunger_vy>>

BallStep(i, cap) ==
  \/ /\ balls[i].pos = "lane"
     /\ balls[i].vy < 0
     /\ \/ MoveBall(i, "field")       \* shot out of the lane
        \/ MoveBall(i, "lane")        \* falls back onto the plunger
  \/ /\ balls[i].pos = "field"
     /\ \/ OnBumperHit(cap)
        \/ OnTargetHit(cap)
        \/ OnDrain(i)
        \/ MoveBall(i, "lane")        \* rolls back into the plunger lane
        \/ MoveBall(i, "off")         \* leaves the table past the drain sensor
  \/ /\ balls[i].pos # "off"
     /\ OnOtherHit                    \* wall, spinner or flipper contact

\* the engine acts on a ball during a substep; cap bounds the score
SpaceStep(cap) ==
  /\ phase = "step"
  /\ \E i \in 1..Len(balls) : BallStep(i, cap)
  /\ plunger_raised' = (plunger_raised \/ plunger_vy < 0)
  /\ UNCHANGED <<framevars, now, histvars>>

PhysicsStep == SpaceStep(MaxScore)

\* the last of the PHYSICS_SUBSTEPS substeps returns: update is over, run()
\* draws and goes to the top of its loop
StepsDone ==
  /\ phase = "step"
  /\ plunger_raised' = (plunger_raised \/ plunger_vy < 0)
  /\ phase' = IF running THEN "events" ELSE "done"
  /\ UNCHANGED <<running, current_index, gsvars, table_difficulty, space_gravity, balls,
                 plunger_vy, now, histvars>>

\* run(): a frame in which update is skipped because the game is over
FrameSkipped ==
  /\ phase = "events"
  /\ game_over
  /\ ~running
  /\ phase' = "done"
  /\ UNCHANGED <<running, current_index, gsvars, tablevars, now, histvars>>

\* the wall clock read by pygame.time.get_ticks()
ClockTick ==
  /\ phase # "done"
  /\ now < MaxClock
  /\ now' = now + 1
  /\ UNCHANGED <<framevars, gsvars, tablevars, histvars>>

(***************************************************************************)
(* PinballGame: reset, cycle_difficulty, and handle_events, one action per *)
(* event of the queue.                                                     *)
(***************************************************************************)

\* variant of Reset: the balls are not removed
Reset_KeepBalls ==
  /\ UNCHANGED balls
  /\ GameStateInit(Current(current_index))
  /\ UNCHANGED <<table_difficulty, space_gravity, plunger_vy, plunger_raised>>

\* PinballGame.reset()
Reset ==
  /\ balls' = <<>>
  /\ GameStateInit(Current(current_index))
  /\ UNCHANGED <<table_difficulty, space_gravity, plunger_vy, plunger_raised>>

\* PinballGame.cycle_difficulty(): the manager cycles, _rebuild_table() makes
\* a new GameState, Space and PinballTable
CycleDifficulty ==
  /\ current_index' = CycleIndex(current_index)
  /\ GameStateInit(Current(CycleIndex(current_index)))
  /\ table_difficulty' = Current(CycleIndex(current_index))
  /\ space_gravity' = Current(CycleIndex(current_index)).gravity
  /\ balls' = <<>>
  /\ plunger_vy' = 0
  /\ plunger_raised' = FALSE

\* name entry, the last branch: a printable key is appended (the model
\* keeps every character as "A")
TypeChar ==
  /\ IF Len(player_name) < 10
       THEN player_name' = Append(player_name, "A")
       ELSE UNCHANGED player_name
  /\ UNCHANGED <<difficulty, score, balls_remaining, ball_in_play, game_over,
                 ball_saver_active, ball_saver_timer, plunger_power,
                 plunger_charging, plunger_direction, combo_multiplier,
                 last_hit_time, asking_for_name, name_submitted>>
  /\ UNCHANGED <<framevars, tablevars, now, histvars>>

Ignored == UNCHANGED <<framevars, gsvars, tablevars, now, histvars>>

\* variant of KeyReturn: the submission is not recorded in name_submitted
KeyReturn_NotRecorded ==
  /\ phase = "events"
  /\ asking_for_name
  /\ player_name # <<>>
  /\ asking_for_name' = FALSE
  /\ UNCHANGED <<difficulty, score, balls_remaining, ball_in_play, game_over,
                 ball_saver_active, ball_saver_timer, plunger_power,
                 plunger_charging, plunger_direction, combo_multiplier,
                 last_hit_time, player_name, name_submitted>>
  /\ UNCHANGED <<framevars, tablevars, now, histvars>>

\* KEYDOWN K_RETURN
KeyReturn ==
  /\ phase = "events"
  /\ asking_for_name
  /\ player_name # <<>>           \* high_score_board.add_score(player_name, score)
  /\ asking_for_name' = FALSE
  /\ name_submitted' = TRUE
  /\ UNCHANGED <<difficulty, score, balls_remaining, ball_in_play, game_over,
                 ball_saver_active, ball_saver_timer, plunger_power,
                 plunger_charging, plunger_direction, combo_multiplier,
                 last_hit_time, player_name>>
  /\ UNCHANGED <<framevars, tablevars, now, histvars>>

\* KEYDOWN K_BACKSPACE
KeyBackspace ==
  /\ phase = "events"
  /\ asking_for_name
  /\ player_name' = SubSeq(player_name, 1, Len(player_name) - 1)
  /\ UNCHANGED <<difficulty, score, balls_remaining, ball_in_play, game_over,
                 ball_saver_active, ball_saver_timer, plunger_power,
                 plunger_charging, plunger_direction, combo_multiplier,
                 last_hit_time, asking_for_name, name_submitted>>
  /\ UNCHANGED <<framevars, tablevars, now, histvars>>

\* variant of KeyEscape: the key is not consumed by the name entry
KeyEscape_Quits ==
  /\ phase = "events"
  /\ running' = FALSE
  /\ UNCHANGED <<current_index, phase, gsvars, tablevars, now, histvars>>

\* KEYDOWN K_ESCAPE
KeyEscape ==
  /\ phase = "events"
  /\ IF asking_for_name
       THEN asking_for_name' = FALSE /\ UNCHANGED running
       ELSE running' = FALSE /\ UNCHANGED asking_for_name
  /\ UNCHANGED <<difficulty, score, balls_remaining, ball_in_play, game_over,
                 ball_saver_active, ball_saver_timer, plunger_power,
                 plunger_charging, plunger_direction, combo_multiplier,
                 last_hit_time, player_name, name_submitted>>
  /\ UNCHANGED <<current_index, phase, tablevars, now, histvars>>

\* KEYDOWN K_y; is_high_score(score) is the answer of the board loaded from
\* highscores.json
KeyY ==
  /\ phase = "events"
  /\ IF asking_for_name THEN TypeChar
     ELSE IF game_over /\ ~name_submitted
       THEN /\ \E is_high_score \in BOOLEAN :
                 asking_for_name' = (is_high_score \/ asking_for_name)
            /\ UNCHANGED <<difficulty, score, balls_remaining, ball_in_play,
                           game_over, ball_saver_active, ball_saver_timer,
                           plunger_power, plunger_charging, plunger_direction,
                           combo_multiplier, last_hit_time, player_name,
                           name_submitted>>
            /\ UNCHANGED <<framevars, tablevars, now, histvars>>
       ELSE Ignored

\* KEYDOWN K_n
KeyN ==
  /\ phase = "events"
  /\ IF asking_for_name THEN TypeChar
     ELSE IF game_over /\ ~name_submitted
       THEN /\ name_submitted' = TRUE
            /\ UNCHANGED <<difficulty, score, balls_remaining, ball_in_play,
                           game_over, ball_saver_active, ball_saver_timer,
                           plunger_power, plunger_charging, plunger_direction,
                           combo_multiplier, last_hit_time, asking_for_name,
                           player_name>>
            /\ UNCHANGED <<framevars, tablevars, now, histvars>>
       ELSE Ignored

\* variant of KeyR: the key is not consumed by the name entry
KeyR_InEntry ==
  /\ phase = "events"
  /\ Reset /\ UNCHANGED <<framevars, now, histvars>>

\* KEYDOWN K_r
KeyR ==
  /\ phase = "events"
  /\ IF asking_for_name THEN TypeChar
     ELSE Reset /\ UNCHANGED <<framevars, now, histvars>>

\* variant of KeyD: ball_in_play is not consulted
KeyD_Always ==
  /\ phase = "events"
  /\ IF asking_for_name THEN TypeChar
     ELSE CycleDifficulty /\ UNCHANGED <<running, phase, now, histvars>>

\* KEYDOWN K_d
KeyD ==
  /\ phase = "events"
  /\ IF asking_for_name THEN TypeChar
     ELSE IF ~ball_in_play
       THEN CycleDifficulty /\ UNCHANGED <<running, phase, now, histvars>>
     ELSE Ignored

\* variant of SpaceDown: create_ball() does not wait for ball_in_play to be false
SpaceDown_Respawn ==
  LET create   == ~game_over
      bs       == IF create THEN BallsAfterCreate(balls) ELSE balls
      inplay   == IF create THEN TRUE ELSE ball_in_play
      charge1  == ~game_over /\ ball_in_play /\ IsAnyBallInPlunger(balls)
      charge2  == ~inplay \/ IsAnyBallInPlunger(bs)
  IN
  /\ balls' = bs
  /\ ball_in_play' = inplay
  /\ ball_saver_active' = IF create THEN TRUE ELSE ball_saver_active
  /\ ball_saver_timer' = IF create THEN table_difficulty.ball_saver_duration
                                   ELSE ball_saver_timer
  /\ plunger_charging' = IF charge1 \/ charge2 THEN TRUE ELSE plunger_charging
  /\ UNCHANGED <<difficulty, score, balls_remaining, game_over, plunger_power,
                 plunger_direction, combo_multiplier, last_hit_time,
                 asking_for_name, player_name, name_submitted>>
  /\ UNCHANGED <<framevars, table_difficulty, space_gravity, plunger_vy, plunger_raised,
                 now, histvars>>

\* KEYDOWN K_SPACE outside name entry: create_ball() and the two conditionals
\* that set plunger_charging
SpaceDown ==
  LET create   == ~game_over /\ ~ball_in_play
      bs       == IF create THEN BallsAfterCreate(balls) ELSE balls
      inplay   == IF create THEN TRUE ELSE ball_in_play
      charge1  == ~game_over /\ ball_in_play /\ IsAnyBallInPlunger(balls)
      charge2  == ~inplay \/ IsAnyBallInPlunger(bs)
  IN
  /\ balls' = bs
  /\ ball_in_play' = inplay
  /\ ball_saver_active' = IF create THEN TRUE ELSE ball_saver_active
  /\ ball_saver_timer' = IF create THEN table_difficulty.ball_saver_duration
                                   ELSE ball_saver_timer
  /\ plunger_charging' = IF charge1 \/ charge2 THEN TRUE ELSE plunger_charging
  /\ UNCHANGED <<difficulty, score, balls_remaining, game_over, plunger_power,
                 plunger_direction, combo_multiplier, last_hit_time,
                 asking_for_name, player_name, name_submitted>>
  /\ UNCHANGED <<framevars, table_difficulty, space_gravity, plunger_vy, plunger_raised,
                 now, histvars>>

KeySpace ==
  /\ phase = "events"
  /\ IF asking_for_name THEN TypeChar ELSE SpaceDown

\* variant of KeyUpSpace: the release does not restore plunger_direction
KeyUpSpace_KeepDirection ==
  /\ phase = "events"
  /\ IF plunger_charging
       THEN /\ LaunchBall(plunger_power)
            /\ plunger_power' = 0
            /\ plunger_charging' = FALSE
            /\ UNCHANGED <<difficulty, score, balls_remaining, ball_in_play,
                           game_over, ball_saver_active, ball_saver_timer,
                           combo_multiplier, last_hit_time, asking_for_name,
                           player_name, name_submitted, plunger_direction>>
            /\ UNCHANGED <<framevars, table_difficulty, space_gravity, plunger_raised, now,
                           histvars>>
       ELSE Ignored

\* KEYUP K_SPACE: launch_ball(plunger_power), then the charge is cleared
KeyUpSpace ==
  /\ phase = "events"
  /\ IF plunger_charging
       THEN /\ LaunchBall(plunger_power)
            /\ plunger_power' = 0
            /\ plunger_charging' = FALSE
            /\ plunger_direction' = 1
            /\ UNCHANGED <<difficulty, score, balls_remaining, ball_in_play,
                           game_over, ball_saver_active, ball_saver_timer,
                           combo_multiplier, last_hit_time, asking_for_name,
                           player_name, name_submitted>>
            /\ UNCHANGED <<framevars, table_difficulty, space_gravity, plunger_raised, now,
                           histvars>>
       ELSE Ignored

\* pygame.QUIT
QuitEvent ==
  /\ phase = "events"
  /\ running' = FALSE
  /\ UNCHANGED <<current_index, phase, gsvars, tablevars, now, histvars>>

\* the actions above leave auxvars to the specification
Next ==
  \/ KeyReturn /\ UNCHANGED auxvars
  \/ KeyBackspace /\ UNCHANGED auxvars
  \/ KeyEscape /\ UNCHANGED auxvars
  \/ KeyY /\ UNCHANGED auxvars
  \/ KeyN /\ UNCHANGED auxvars
  \/ KeyR /\ UNCHANGED auxvars
  \/ KeyD /\ UNCHANGED auxvars
  \/ KeySpace /\ UNCHANGED auxvars
  \/ KeyUpSpace /\ UNCHANGED auxvars
  \/ QuitEvent /\ UNCHANGED auxvars
  \/ Update /\ UNCHANGED auxvars
  \/ PhysicsStep /\ UNCHANGED auxvars
  \/ StepsDone /\ UNCHANGED auxvars
  \/ FrameSkipped /\ UNCHANGED auxvars
  \/ ClockTick /\ UNCHANGED auxvars

Spec == Init /\ [][Next]_vars

(***************************************************************************)
(* SpecRally: the scoring state of GameState under the operations that     *)
(* write it, the two scoring callbacks, reset and the difficulty switch,   *)
(* with the clock.  pymunk decides when a contact begins; here it may      *)
(* report one at any time, and the ball's motion is left out, so the       *)
(* scores and clock values can range further than in Spec.  prev_hit_time  *)
(* and same_game record the history of the bumper contacts.                *)
(***************************************************************************)
RallyBumper ==
  /\ OnBumperHit(MaxRallyScore)
  /\ prev_hit_time' = now
  /\ same_game' = TRUE
  /\ UNCHANGED <<framevars, plunger_raised, now, auxvars>>

RallyTarget ==
  /\ OnTargetHit(MaxRallyScore)
  /\ UNCHANGED <<framevars, plunger_raised, now, histvars, auxvars>>

RallyTick ==
  /\ now < MaxRallyClock
  /\ now' = now + 1
  /\ UNCHANGED <<framevars, gsvars, tablevars, histvars, auxvars>>

RallyReset ==
  /\ Reset
  /\ same_game' = FALSE
  /\ UNCHANGED <<framevars, now, prev_hit_time, auxvars>>

RallyCycle ==
  /\ ~ball_in_play
  /\ CycleDifficulty
  /\ same_game' = FALSE
  /\ UNCHANGED <<running, phase, now, prev_hit_time, auxvars>>

NextRally ==
  \/ RallyBumper
  \/ RallyTarget
  \/ RallyTick
  \/ RallyReset
  \/ RallyCycle

SpecRally == Init /\ [][NextRally]_vars

(***************************************************************************)
(* SpecSaver: the game loop of Spec with the history of the latest         *)
(* create_ball kept (since_spawn, spawn_duration, spawn_reset).  The clock *)
(* stays where it is and the scoring contacts are left out (no score fits  *)
(* under MaxSaverScore): neither touches the ball saver.                   *)
(***************************************************************************)

\* KEYDOWN K_SPACE; a create_ball() starts a new history
SaverSpace ==
  /\ KeySpace
  /\ IF Len(balls') > Len(balls)
       THEN /\ since_spawn' = 0
            /\ spawn_duration' = Current(current_index).ball_saver_duration
            /\ spawn_reset' = FALSE
            /\ UNCHANGED drain_contact
       ELSE UNCHANGED spawnvars
  /\ UNCHANGED <<launchvars, frame_log, sidevars>>

\* KEYDOWN K_r; outside name entry it calls reset()
SaverKeyR ==
  /\ KeyR
  /\ spawn_reset' = (spawn_reset \/ ~asking_for_name)
  /\ drain_contact' = IF asking_for_name THEN drain_contact
                      ELSE IF drain_contact = "saved" THEN "saved_reset"
                      ELSE IF drain_contact = "lost" THEN "lost_reset"
                      ELSE drain_contact
  /\ UNCHANGED <<since_spawn, spawn_duration, launchvars, frame_log, sidevars>>

\* update(dt) adds dt to the time since the spawn
SaverUpdate ==
  \E dt \in 1..MaxDt :
    /\ UpdateWith(dt)
    /\ since_spawn' = IF since_spawn >= 0
                        THEN Min(since_spawn + dt, spawn_duration)
                        ELSE since_spawn
    /\ drain_contact' = IF drain_contact \in {"saved", "saved_reset"} THEN "saved_done"
                        ELSE IF drain_contact \in {"lost", "lost_reset"} THEN "lost_done"
                        ELSE drain_contact
    /\ UNCHANGED <<spawn_duration, spawn_reset, launchvars, frame_log, sidevars>>

\* the step is a ball-drain begin contact (_on_drain on a ball of the field)
DrainContactStep ==
  /\ phase = "step"
  /\ \E i \in 1..Len(balls) : balls[i].pos = "field" /\ OnDrain(i)

\* space.step; a ball-drain contact is recorded (the same move of the ball
\* may also have another cause, and then is not)
SaverStep ==
  /\ SpaceStep(MaxSaverScore)
  /\ \/ /\ DrainContactStep
        /\ drain_contact' = IF ball_saver_active THEN "saved" ELSE "lost"
     \/ UNCHANGED drain_contact
  /\ UNCHANGED <<since_spawn, spawn_duration, spawn_reset, launchvars, frame_log, sidevars>>

NextSaver ==
  \/ KeyReturn /\ UNCHANGED auxvars
  \/ KeyBackspace /\ UNCHANGED auxvars
  \/ KeyEscape /\ UNCHANGED auxvars
  \/ KeyY /\ UNCHANGED auxvars
  \/ KeyN /\ UNCHANGED auxvars
  \/ SaverKeyR
  \/ KeyD /\ UNCHANGED auxvars
  \/ SaverSpace
  \/ KeyUpSpace /\ UNCHANGED auxvars
  \/ QuitEvent /\ UNCHANGED auxvars
  \/ SaverUpdate
  \/ SaverStep
  \/ StepsDone /\ UNCHANGED auxvars
  \/ FrameSkipped /\ UNCHANGED auxvars

SpecSaver == Init /\ [][NextSaver]_vars

(***************************************************************************)
(* SpecLaunch: the game loop with the most recent ball's position kept in  *)
(* table coordinates (ball_x, ball_y), on a grid of points around the      *)
(* edges of the plunger-lane region.  The region of a ball record is the   *)
(* region of those coordinates.  No grid point is both inside the lane     *)
(* region and off-table (a ball below y = 800 inside the lane).            *)
(***************************************************************************)
GridX == {-100, 300, 505, 506, 535, 564, 565}

GridY == {-100, 600, 601, 710}

\* variant of InPlungerLane: the left edge belongs to the lane
InPlungerLane_Closed(x, y) == x >= 505 /\ x < 565 /\ y > 600

\* is_ball_in_plunger_lane, on coordinates
InPlungerLane(x, y) == x > 505 /\ x < 565 /\ y > 600

\* update(dt): the off-table test, on coordinates
IsOffTable(x, y) == y > 800 \/ x < -50

RegionOf(x, y) ==
  IF InPlungerLane(x, y) THEN "lane"
  ELSE IF IsOffTable(x, y) THEN "off"
  ELSE "field"

\* space.step moves the most recent ball to (x, y); a ball at rest on the
\* plunger stays in the lane, a drained ball stays where _on_drain put it
PlaceBall(x, y) ==
  LET n == Len(balls) IN
  /\ phase = "step"
  /\ n > 0
  /\ balls[n].pos # "off"
  /\ (balls[n].pos = "lane" /\ balls[n].vy = 0) => RegionOf(x, y) = "lane"
  /\ balls' = [balls EXCEPT ![n] = [pos |-> RegionOf(x, y), vy |-> 0]]
  /\ ball_x' = x
  /\ ball_y' = y
  /\ plunger_raised' = (plunger_raised \/ plunger_vy < 0)
  /\ UNCHANGED <<framevars, gsvars, table_difficulty, space_gravity, plunger_vy, now,
                 histvars, spawnvars, frame_log, sidevars>>

\* KEYDOWN K_SPACE; create_ball() puts the new ball at (535, 710)
LaunchSpace ==
  /\ KeySpace
  /\ IF Len(balls') > Len(balls)
       THEN ball_x' = 535 /\ ball_y' = 710
       ELSE UNCHANGED launchvars
  /\ UNCHANGED <<spawnvars, frame_log, sidevars>>

NextLaunch ==
  \/ LaunchSpace
  \/ KeyUpSpace /\ UNCHANGED auxvars
  \/ KeyR /\ UNCHANGED auxvars
  \/ KeyD /\ UNCHANGED auxvars
  \/ Update /\ UNCHANGED auxvars
  \/ \E x \in GridX, y \in GridY : PlaceBall(x, y)
  \/ StepsDone /\ UNCHANGED auxvars

SpecLaunch == Init /\ [][NextLaunch]_vars

(***************************************************************************)
(* SpecFrame: one iteration of run() after another, with frame_log the     *)
(* sequence of what the present frame has done so far: "flip" (flip_left / *)
(* flip_right), "launch" (launch_ball), "charge" (the plunger charge of    *)
(* update), "bookkeeping" (PinballTable.update), "step" (a space.step call *)
(* that returned), "draw".  The contacts of a substep are PhysicsStep      *)
(* steps taken while that space.step call runs.  A frame logs at most one  *)
(* flip and one launch.                                                    *)
(***************************************************************************)
StepsLogged(log) == Cardinality({j \in 1..Len(log) : log[j] = "step"})

Logged(tok) == \E j \in 1..Len(frame_log) : frame_log[j] = tok

\* run(): the top of the loop, after the previous frame's draw
FrameStart ==
  /\ phase = "events"
  /\ Logged("draw")
  /\ frame_log' = <<>>
  /\ UNCHANGED <<framevars, gsvars, tablevars, now, histvars, spawnvars, launchvars, sidevars>>

\* handle_events: a flip key; the impulse acts on a flipper body
FrameFlip ==
  /\ phase = "events"
  /\ ~Logged("draw")
  /\ ~asking_for_name
  /\ ~Logged("flip")
  /\ frame_log' = Append(frame_log, "flip")
  /\ UNCHANGED <<framevars, gsvars, tablevars, now, histvars, spawnvars, launchvars, sidevars>>

\* handle_events: KEYDOWN K_SPACE
FrameSpace ==
  /\ ~Logged("draw")
  /\ KeySpace
  /\ UNCHANGED auxvars

\* handle_events: KEYUP K_SPACE, which calls launch_ball when charging
FrameKeyUp ==
  /\ ~Logged("draw")
  /\ plunger_charging => ~Logged("launch")
  /\ KeyUpSpace
  /\ frame_log' = IF plunger_charging THEN Append(frame_log, "launch")
                                      ELSE frame_log
  /\ UNCHANGED <<spawnvars, launchvars, sidevars>>

\* handle_events: KEYDOWN K_r
FrameKeyR ==
  /\ ~Logged("draw")
  /\ KeyR
  /\ UNCHANGED auxvars

\* update(dt) up to the substeps: the plunger charge, then table.update(dt)
FrameUpdate ==
  /\ ~Logged("draw")
  /\ Update
  /\ frame_log' = frame_log \o (IF plunger_charging THEN <<"charge">> ELSE <<>>)
                            \o <<"bookkeeping">>
  /\ UNCHANGED <<spawnvars, launchvars, sidevars>>

\* a begin contact or a move of a ball inside the running space.step call
FramePhysics ==
  /\ StepsLogged(frame_log) < PHYSICS_SUBSTEPS
  /\ SpaceStep(MaxSaverScore)
  /\ UNCHANGED auxvars

\* a space.step(sub_dt) call returns
FrameSubstep ==
  /\ phase = "step"
  /\ StepsLogged(frame_log) < PHYSICS_SUBSTEPS
  /\ frame_log' = Append(frame_log, "step")
  /\ plunger_raised' = (plunger_raised \/ plunger_vy < 0)
  /\ UNCHANGED <<framevars, gsvars, table_difficulty, space_gravity, balls, plunger_vy, now,
                 histvars, spawnvars, launchvars, sidevars>>

\* update returns after the last substep, and run() draws
FrameDraw ==
  /\ StepsLogged(frame_log) = PHYSICS_SUBSTEPS
  /\ StepsDone
  /\ frame_log' = Append(frame_log, "draw")
  /\ UNCHANGED <<spawnvars, launchvars, sidevars>>

\* run(): the game is over, update is skipped, and run() draws
FrameDrawOnly ==
  /\ phase = "events"
  /\ ~Logged("draw")
  /\ game_over
  /\ frame_log' = Append(frame_log, "draw")
  /\ UNCHANGED <<framevars, gsvars, tablevars, now, histvars, spawnvars, launchvars, sidevars>>

NextFrame ==
  \/ FrameStart
  \/ FrameFlip
  \/ FrameSpace
  \/ FrameKeyUp
  \/ FrameKeyR
  \/ FrameUpdate
  \/ FramePhysics
  \/ FrameSubstep
  \/ FrameDraw
  \/ FrameDrawOnly

SpecFrame == Init /\ [][NextFrame]_vars

(***************************************************************************)
(* SpecDifficulty: the DifficultyManager alone, under any sequence of      *)
(* set_difficulty and cycle_difficulty calls.                              *)
(***************************************************************************)

Clamp_NoFloor(index) == Min(index, Len(DIFFICULTY_PRESETS) - 1)

\* max(0, min(index, len(self.presets) - 1))
Clamp(index) ==
  LET upper == Min(index, Len(DIFFICULTY_PRESETS) - 1)
  IN  IF 0 > upper THEN 0 ELSE upper

\* DifficultyManager.set_difficulty(index)
SetDifficulty(index) ==
  /\ current_index' = Clamp(index)
  /\ set_index' = <<index>>
  /\ UNCHANGED <<running, phase, gsvars, tablevars, now, histvars,
                 spawnvars, launchvars, frame_log, sound_mode, sound_out, scores, refvars, ghostvars, contactvars>>

\* DifficultyManager.cycle_difficulty(), which returns self.current
ManagerCycle ==
  /\ current_index' = CycleIndex(current_index)
  /\ Current(current_index') \in {DIFFICULTY_PRESETS[k] : k \in 1..Len(DIFFICULTY_PRESETS)}
  /\ set_index' = <<>>
  /\ UNCHANGED <<running, phase, gsvars, tablevars, now, histvars,
                 spawnvars, launchvars, frame_log, sound_mode, sound_out, scores, refvars, ghostvars, contactvars>>

NextDifficulty ==
  \/ \E index \in -MaxIndexArg..MaxIndexArg : SetDifficulty(index)
  \/ ManagerCycle

SpecDifficulty == Init /\ [][NextDifficulty]_vars

(***************************************************************************)
(* SpecSound: the game loop with the audio collaborator.  sound_mode says  *)
(* what the table was given as sound_manager; every handler that asks for  *)
(* a sound is an action of the mode, so that the same event can be taken   *)
(* under another mode.                                                     *)
(***************************************************************************)
SoundModes == {"absent", "disabled", "enabled", "failing"}

\* SoundManager._generate_sounds: the keys of self.sounds
SoundNames == {"bumper", "flipper", "wall", "target", "spinner", "launch"}

\* variant of Play: a failing playback is not caught
Play_Propagates(mode, sound_name) ==
  IF mode \in {"enabled", "failing"} /\ sound_name \in SoundNames
    THEN IF mode = "failing" THEN "raised" ELSE "played"
    ELSE "silent"

\* SoundManager.play(sound_name): "played", "silent" (disabled, or no such
\* sound), "swallowed" (the playback raised inside the try), or "raised"
Play(mode, sound_name) ==
  IF mode \in {"enabled", "failing"} /\ sound_name \in SoundNames
    THEN IF mode = "failing" THEN "swallowed" ELSE "played"
    ELSE "silent"

\* if self.sound_manager: self.sound_manager.play(sound_name)
Heard(mode, sound_name) ==
  IF mode = "absent" THEN "none" ELSE Play(mode, sound_name)

\* a begin callback of space.step, around the handler's effect on GameState
\* and the table
ContactFrame ==
  /\ phase = "step"
  /\ \E i \in 1..Len(balls) : balls[i].pos = "field"
  /\ plunger_raised' = (plunger_raised \/ plunger_vy < 0)
  /\ UNCHANGED <<framevars, now, histvars, spawnvars, launchvars, frame_log,
                 set_index, sound_mode, scores, refvars, ghostvars, contactvars>>

\* _on_bumper_hit with the sound manager in the given mode: the statements
\* after the sound run unless play raised
BumperContact(mode) ==
  /\ ContactFrame
  /\ Heard(mode, "bumper") # "raised"
  /\ OnBumperHit(MaxSoundScore)

\* _on_target_hit
TargetContact(mode) ==
  /\ ContactFrame
  /\ Heard(mode, "target") # "raised"
  /\ OnTargetHit(MaxSoundScore)

\* _on_spinner_hit, _on_wall_hit, _on_flipper_hit
OtherContact(mode, sound_name) ==
  /\ ContactFrame
  /\ Heard(mode, sound_name) # "raised"
  /\ OnOtherHit

\* KEYUP of SPACE: launch_ball asks for the launch sound when it acts
LaunchRelease(mode) ==
  /\ (plunger_charging /\ LaunchActs(balls, plunger_power)) =>
       Heard(mode, "launch") # "raised"
  /\ KeyUpSpace
  /\ UNCHANGED <<spawnvars, launchvars, frame_log, set_index, sound_mode, scores, refvars, ghostvars, contactvars>>

SoundBumper ==
  /\ BumperContact(sound_mode)
  /\ sound_out' = Heard(sound_mode, "bumper")

SoundTarget ==
  /\ TargetContact(sound_mode)
  /\ sound_out' = Heard(sound_mode, "target")

SoundOther ==
  \E sound_name \in {"spinner", "wall", "flipper"} :
    /\ OtherContact(sound_mode, sound_name)
    /\ sound_out' = Heard(sound_mode, sound_name)

SoundKeyUp ==
  /\ LaunchRelease(sound_mode)
  /\ sound_out' = IF plunger_charging /\ LaunchActs(balls, plunger_power)
                    THEN Heard(sound_mode, "launch")
                    ELSE sound_out

\* space.step moving a ball or running _on_drain: no sound is asked for
SoundMotion ==
  /\ phase = "step"
  /\ \E i \in 1..Len(balls) :
       \/ /\ balls[i].pos = "lane"
          /\ balls[i].vy < 0
          /\ \/ MoveBall(i, "field")
             \/ MoveBall(i, "lane")
       \/ /\ balls[i].pos = "field"
          /\ \/ OnDrain(i)
             \/ MoveBall(i, "lane")
             \/ MoveBall(i, "off")
  /\ plunger_raised' = (plunger_raised \/ plunger_vy < 0)
  /\ UNCHANGED <<framevars, now, histvars, auxvars>>

SoundTick ==
  /\ now < MaxSoundClock
  /\ ClockTick

NextSound ==
  \/ SoundBumper
  \/ SoundTarget
  \/ SoundOther
  \/ SoundKeyUp
  \/ SoundMotion
  \/ KeySpace /\ UNCHANGED auxvars
  \/ KeyR /\ UNCHANGED auxvars
  \/ Update /\ UNCHANGED auxvars
  \/ StepsDone /\ UNCHANGED auxvars
  \/ SoundTick /\ UNCHANGED auxvars

\* the sound manager is whatever the table was constructed with
InitSound ==
  /\ InitState
  /\ sound_mode \in SoundModes
  /\ sound_out = "none"
  /\ scores = <<>>

SpecSound == InitSound /\ [][NextSound]_vars

(***************************************************************************)
(* SpecBoard: the HighScoreBoard alone, from the empty board (no score     *)
(* file), under any sequence of add_score calls.                           *)
(***************************************************************************)
max_entries == 10

\* names as player_name keeps them
BoardNames == {<<"A">>, <<"A", "A">>}

\* variant of InsertDesc: the entry goes in front of the entries that score
\* as much
RECURSIVE InsertDesc_BeforeEquals(_, _)
InsertDesc_BeforeEquals(sorted, entry) ==
  IF sorted = <<>>
    THEN <<entry>>
    ELSE IF Head(sorted).score > entry.score
           THEN <<Head(sorted)>> \o InsertDesc_BeforeEquals(Tail(sorted), entry)
           ELSE <<entry>> \o sorted

\* the place of an entry in a list sorted by score, highest first: behind
\* the entries that score as much or more (the sort is stable)
RECURSIVE InsertDesc(_, _)
InsertDesc(sorted, entry) ==
  IF sorted = <<>>
    THEN <<entry>>
    ELSE IF Head(sorted).score >= entry.score
           THEN <<Head(sorted)>> \o InsertDesc(Tail(sorted), entry)
           ELSE <<entry>> \o sorted

\* variant of SortDesc: the list is left as it is
SortDesc_None(list) == list

\* self.scores.sort(key=lambda x: x["score"], reverse=True)
RECURSIVE SortDesc(_)
SortDesc(list) ==
  IF list = <<>>
    THEN <<>>
    ELSE InsertDesc(SortDesc(SubSeq(list, 1, Len(list) - 1)), list[Len(list)])

\* add_score(name, score): self.scores afterwards
ScoresAfterAdd(board, name, s) ==
  LET sorted == SortDesc(Append(board, [name |-> name, score |-> s]))
  IN  SubSeq(sorted, 1, Min(Len(sorted), max_entries))

\* is_high_score(score)
IsHighScore(board, s) ==
  IF Len(board) < max_entries
    THEN TRUE
    ELSE s > board[Len(board)].score

\* HighScoreBoard.add_score(name, score)
AddScore(name, s) ==
  /\ scores' = ScoresAfterAdd(scores, name, s)
  /\ UNCHANGED <<framevars, gsvars, tablevars, now, histvars, spawnvars,
                 launchvars, frame_log, set_index, sound_mode, sound_out, refvars, ghostvars, contactvars>>

NextBoard ==
  \E name \in BoardNames, s \in 0..MaxBoardScore : AddScore(name, s)

SpecBoard == Init /\ [][NextBoard]_vars

(***************************************************************************)
(* SpecEntry: the game loop with the HighScoreBoard.  The board is loaded  *)
(* from highscores.json at start-up: absent (empty board) or a full board  *)
(* written by earlier runs.  The clock stays where it is.  A run is        *)
(* followed up to the end of the name entry of its first finished game:    *)
(* R and D are taken until the name is submitted or declined.              *)
(***************************************************************************)
LoadedBoard ==
  [i \in 1..max_entries |->
     [name |-> <<"A">>, score |-> 2 * BumperBase(DIFFICULTY_NORMAL)]]

\* KEYDOWN K_y, with is_high_score answered by the board
EntryKeyY ==
  /\ KeyY
  /\ (~asking_for_name /\ game_over /\ ~name_submitted) =>
       asking_for_name' = IsHighScore(scores, score)
  /\ UNCHANGED auxvars

\* KEYDOWN K_RETURN, with the add_score call
EntryReturn ==
  /\ KeyReturn
  /\ scores' = ScoresAfterAdd(scores, player_name, score)
  /\ UNCHANGED <<spawnvars, launchvars, frame_log, set_index, sound_mode,
                 sound_out, refvars, ghostvars, contactvars>>

EntryKeyR ==
  /\ ~name_submitted
  /\ KeyR
  /\ UNCHANGED auxvars

EntryKeyD ==
  /\ ~name_submitted
  /\ KeyD
  /\ UNCHANGED auxvars

EntryEscape ==
  /\ asking_for_name
  /\ KeyEscape
  /\ UNCHANGED auxvars

EntryStep ==
  /\ SpaceStep(MaxEntryScore)
  /\ UNCHANGED auxvars

NextEntry ==
  \/ EntryKeyY
  \/ EntryReturn
  \/ EntryKeyR
  \/ EntryKeyD
  \/ EntryEscape
  \/ EntryStep
  \/ KeyN /\ UNCHANGED auxvars
  \/ KeyBackspace /\ UNCHANGED auxvars
  \/ KeySpace /\ UNCHANGED auxvars
  \/ KeyUpSpace /\ UNCHANGED auxvars
  \/ Update /\ UNCHANGED auxvars
  \/ StepsDone /\ UNCHANGED auxvars

\* HighScoreBoard._load_scores at start-up
InitEntry ==
  /\ InitState
  /\ sound_mode = "enabled"
  /\ sound_out = "none"
  /\ scores \in {<<>>, LoadedBoard}

SpecEntry == InitEntry /\ [][NextEntry]_vars

(***************************************************************************)
(* SpecLife: the game loop with the identities of the objects that         *)
(* _rebuild_table replaces.  An identity is the number of objects of the   *)
(* class made before the object; PinballGame makes them all, so the newest *)
(* is the one it holds.  The clock stays where it is; at most MaxRebuilds  *)
(* difficulty switches are followed.                                       *)
(***************************************************************************)

\* variant of TableGameState: the new table is given the GameState of the old
TableGameState_Stale(old, fresh) == old

\* _rebuild_table: PinballTable(self.space, self.game_state, ...) after
\* self.game_state = GameState(difficulty); the table's game_state
TableGameState(old, fresh) == fresh

\* _rebuild_table, on the identities
RebuildRefs ==
  /\ game_state_ref' = game_state_ref + 1
  /\ space_ref' = space_ref + 1
  /\ table_game_state_ref' = TableGameState(table_game_state_ref, game_state_ref')
  /\ table_space_ref' = space_ref'

\* KEYDOWN K_d
LifeKeyD ==
  /\ game_state_ref < MaxRebuilds
  /\ KeyD
  /\ IF ~asking_for_name /\ ~ball_in_play
       THEN RebuildRefs
       ELSE UNCHANGED refvars
  /\ UNCHANGED <<spawnvars, launchvars, frame_log, set_index, sound_mode,
                 sound_out, scores, ghostvars, contactvars>>

\* KEYDOWN K_r: GameState.reset() re-initialises the object in place
LifeKeyR ==
  /\ KeyR
  /\ UNCHANGED auxvars

LifeStep ==
  /\ SpaceStep(MaxLifeScore)
  /\ UNCHANGED auxvars

NextLife ==
  \/ LifeKeyD
  \/ LifeKeyR
  \/ LifeStep
  \/ KeySpace /\ UNCHANGED auxvars
  \/ KeyUpSpace /\ UNCHANGED auxvars
  \/ Update /\ UNCHANGED auxvars
  \/ StepsDone /\ UNCHANGED auxvars

SpecLife == Init /\ [][NextLife]_vars

(***************************************************************************)
(* SpecFlipper: the begin callbacks that do not score.  The engine gives   *)
(* the ball at a flipper a velocity and the flipper an angular velocity    *)
(* (FlipperMotion); velocities are drawn from multiples of 10, on which    *)
(* the product with 1.3 is exact.  The handlers do not read the ball's     *)
(* position: the ball is any live ball, and the plunger is left alone.     *)
(***************************************************************************)
VelGrid == {-MaxVel * 10, MaxVel * 10}

\* around the threshold abs(flipper_vel) > 5
AngularGrid == {-6, -5, 5, 6}

Abs(x) == IF x < 0 THEN -x ELSE x

\* boost = self.difficulty.flipper_impulse * 0.015
FlipperBoost(d) == (d.flipper_impulse * 15) \div 1000

\* variant of VelocityAfterFlipper: the threshold is included
VelocityAfterFlipper_Inclusive(vel, angular, d) ==
  IF Abs(angular) >= 5
    THEN <<(vel[1] * 13) \div 10, vel[2] - FlipperBoost(d)>>
    ELSE vel

\* _on_flipper_hit: the ball's velocity afterwards
VelocityAfterFlipper(vel, angular, d) ==
  IF Abs(angular) > 5
    THEN <<(vel[1] * 13) \div 10, vel[2] - FlipperBoost(d)>>
    ELSE vel

\* a begin callback for a ball on the table during space.step
QuietFrame ==
  /\ phase = "step"
  /\ \E i \in 1..Len(balls) : balls[i].pos # "off"
  /\ plunger_raised' = (plunger_raised \/ plunger_vy < 0)
  /\ UNCHANGED <<framevars, now, histvars, spawnvars, launchvars, frame_log,
                 set_index, sound_mode, sound_out, scores, refvars, ghostvars, contact>>

\* _on_flipper_hit
FlipperContact ==
  /\ QuietFrame
  /\ ball_vel[1] \in VelGrid
  /\ ball_vel[2] \in VelGrid
  /\ OnOtherHit
  /\ ball_vel' = VelocityAfterFlipper(ball_vel, flipper_vel, table_difficulty)
  /\ UNCHANGED flipper_vel

\* _on_spinner_hit
SpinnerContact ==
  /\ QuietFrame
  /\ OnOtherHit
  /\ UNCHANGED <<ball_vel, flipper_vel>>

\* _on_wall_hit
WallContact ==
  /\ QuietFrame
  /\ OnOtherHit
  /\ UNCHANGED <<ball_vel, flipper_vel>>

\* space.step: the ball moves towards a flipper, the flipper turns
FlipperMotion ==
  /\ phase = "step"
  /\ \E i \in 1..Len(balls) : balls[i].pos # "off"
  /\ \E vx \in VelGrid, vy \in VelGrid : ball_vel' = <<vx, vy>>
  /\ flipper_vel' \in AngularGrid
  /\ plunger_raised' = (plunger_raised \/ plunger_vy < 0)
  /\ UNCHANGED <<framevars, gsvars, table_difficulty, space_gravity, balls,
                 plunger_vy, now, histvars, spawnvars, launchvars, frame_log,
                 set_index, sound_mode, sound_out, scores, refvars, ghostvars, contact>>

\* KEYDOWN K_SPACE with no ball in play: create_ball()
FlipperSpace ==
  /\ ~ball_in_play
  /\ KeySpace
  /\ UNCHANGED auxvars

NextFlipper ==
  \/ FlipperContact
  \/ SpinnerContact
  \/ WallContact
  \/ FlipperMotion
  \/ FlipperSpace
  \/ KeyD /\ UNCHANGED auxvars
  \/ KeyR /\ UNCHANGED auxvars
  \/ Update /\ UNCHANGED auxvars
  \/ StepsDone /\ UNCHANGED auxvars

SpecFlipper == Init /\ [][NextFlipper]_vars

(***************************************************************************)
(* SpecContact: contact episodes.  The engine reports a pair of touching   *)
(* shapes to the callbacks registered for their collision types: begin in  *)
(* the step in which they start to touch, pre_solve and post_solve in that *)
(* and every later step in which they still touch, separate when they     *)
(* part.  contact is what the ball touches at present.                     *)
(***************************************************************************)

\* variant of Registered: the scoring handlers are also run by pre_solve
Registered_PreSolve(kind) == {"begin", "pre_solve"}

\* _setup_collision_handlers: the callbacks of on_collision that are given
\* the handler of a bumper or target contact
Registered(kind) == {"begin"}

\* the handler of a contact kind
Handler(kind) ==
  IF kind = "bumper" THEN OnBumperHit(MaxContactScore)
                     ELSE OnTargetHit(MaxContactScore)

ContactVarsKept ==
  UNCHANGED <<framevars, now, histvars, spawnvars, launchvars, frame_log,
              set_index, sound_mode, sound_out, scores, refvars, ghostvars, ball_vel,
              flipper_vel>>

\* space.step: the ball starts to touch a bumper or a target
ContactBegin ==
  /\ phase = "step"
  /\ contact = "none"
  /\ \E i \in 1..Len(balls) : balls[i].pos = "field"
  /\ \E kind \in {"bumper", "target"} :
       /\ contact' = kind
       /\ IF "begin" \in Registered(kind)
            THEN Handler(kind)
            ELSE UNCHANGED <<gsvars, table_difficulty, space_gravity, balls,
                             plunger_vy>>
  /\ plunger_raised' = (plunger_raised \/ plunger_vy < 0)
  /\ ContactVarsKept

\* space.step: the ball still touches it (it rests against it)
ContactPersist ==
  /\ phase = "step"
  /\ contact # "none"
  /\ contact' = contact
  /\ IF "pre_solve" \in Registered(contact)
       THEN Handler(contact)
       ELSE UNCHANGED <<gsvars, table_difficulty, space_gravity, balls,
                        plunger_vy>>
  /\ plunger_raised' = (plunger_raised \/ plunger_vy < 0)
  /\ ContactVarsKept

\* space.step: the ball leaves it
ContactSeparate ==
  /\ phase = "step"
  /\ contact # "none"
  /\ contact' = "none"
  /\ plunger_raised' = (plunger_raised \/ plunger_vy < 0)
  /\ UNCHANGED <<gsvars, table_difficulty, space_gravity, balls, plunger_vy>>
  /\ ContactVarsKept

\* space.step: the launched ball leaves the lane, or rolls back into it
ContactMotion ==
  /\ phase = "step"
  /\ contact = "none"
  /\ \E i \in 1..Len(balls) :
       \/ /\ balls[i].pos = "lane"
          /\ balls[i].vy < 0
          /\ MoveBall(i, "field")
       \/ /\ balls[i].pos = "field"
          /\ MoveBall(i, "lane")
  /\ plunger_raised' = (plunger_raised \/ plunger_vy < 0)
  /\ UNCHANGED <<framevars, now, histvars, auxvars>>

\* KEYDOWN K_r: reset() removes the balls, and with them the contact
ContactKeyR ==
  /\ KeyR
  /\ contact' = "none"
  /\ ContactVarsKept

ContactTick ==
  /\ now < MaxContactClock
  /\ ClockTick
  /\ UNCHANGED auxvars

NextContact ==
  \/ ContactBegin
  \/ ContactPersist
  \/ ContactSeparate
  \/ ContactMotion
  \/ ContactKeyR
  \/ ContactTick
  \/ KeySpace /\ UNCHANGED auxvars
  \/ KeyUpSpace /\ UNCHANGED auxvars
  \/ Update /\ UNCHANGED auxvars
  \/ StepsDone /\ UNCHANGED auxvars

SpecContact == Init /\ [][NextContact]_vars

(***************************************************************************)
(* SpecLost: the game loop with the count of the balls lost since the      *)
(* GameState was created or reset.  The clock stays where it is.           *)
(***************************************************************************)
LostKept ==
  UNCHANGED <<spawnvars, launchvars, frame_log, set_index, sound_mode,
              sound_out, scores, refvars, adds, contactvars>>

\* update(dt): the removal loop counts a ball as lost when the saver, after
\* its countdown, is inactive
LostUpdate ==
  /\ Update
  /\ balls_lost' = IF ball_saver_active'
                     THEN balls_lost
                     ELSE balls_lost + Cardinality(OffTable(balls))
  /\ LostKept

\* KEYDOWN K_r: GameState.reset
LostKeyR ==
  /\ KeyR
  /\ balls_lost' = IF asking_for_name THEN balls_lost ELSE 0
  /\ LostKept

\* KEYDOWN K_d: a new GameState when no ball is in play
LostKeyD ==
  /\ KeyD
  /\ balls_lost' = IF ~asking_for_name /\ ~ball_in_play THEN 0 ELSE balls_lost
  /\ LostKept

LostStep ==
  /\ SpaceStep(MaxLostScore)
  /\ UNCHANGED auxvars

NextLost ==
  \/ LostUpdate
  \/ LostKeyR
  \/ LostKeyD
  \/ LostStep
  \/ KeySpace /\ UNCHANGED auxvars
  \/ KeyUpSpace /\ UNCHANGED auxvars
  \/ StepsDone /\ UNCHANGED auxvars

SpecLost == Init /\ [][NextLost]_vars

(***************************************************************************)
(* SpecSubmit: the game loop with the HighScoreBoard, empty at start-up,   *)
(* and the number of add_score calls made since GameState was last created *)
(* or reset (adds).  Game follows game: R and D are taken until the board  *)
(* holds MaxSubmits entries or a name outside KeptNames.  The clock stays  *)
(* where it is.                                                            *)
(***************************************************************************)
KeptNames == {<<"A">>}

Followed ==
  /\ Len(scores) < MaxSubmits
  /\ \A i \in 1..Len(scores) : scores[i].name \in KeptNames

SubmitKept ==
  UNCHANGED <<spawnvars, launchvars, frame_log, set_index, sound_mode,
              sound_out, refvars, balls_lost, contactvars>>

\* KEYDOWN K_RETURN in the name entry with a name typed: the add_score call
SubmitReturn ==
  /\ KeyReturn
  /\ scores' = ScoresAfterAdd(scores, player_name, score)
  /\ adds' = adds + 1
  /\ SubmitKept

\* KEYDOWN K_r; outside name entry it calls reset()
SubmitKeyR ==
  /\ Followed
  /\ KeyR
  /\ adds' = IF asking_for_name THEN adds ELSE 0
  /\ UNCHANGED scores
  /\ SubmitKept

\* KEYDOWN K_d; outside name entry and with no ball in play it calls
\* cycle_difficulty()
SubmitKeyD ==
  /\ Followed
  /\ KeyD
  /\ adds' = IF ~asking_for_name /\ ~ball_in_play THEN 0 ELSE adds
  /\ UNCHANGED scores
  /\ SubmitKept

SubmitStep ==
  /\ SpaceStep(MaxSubmitScore)
  /\ UNCHANGED auxvars

NextSubmit ==
  \/ EntryKeyY
  \/ SubmitReturn
  \/ SubmitKeyR
  \/ SubmitKeyD
  \/ SubmitStep
  \/ KeyEscape /\ UNCHANGED auxvars
  \/ KeyN /\ UNCHANGED auxvars
  \/ KeyBackspace /\ UNCHANGED auxvars
  \/ KeySpace /\ UNCHANGED auxvars
  \/ KeyUpSpace /\ UNCHANGED auxvars
  \/ Update /\ UNCHANGED auxvars
  \/ StepsDone /\ UNCHANGED auxvars

SpecSubmit == Init /\ [][NextSubmit]_vars

(***************************************************************************)
(* SpecKeys: the game loop with the flipper keys.  flipper_vel is the      *)
(* angular velocity of the flipper a flip key drives: flip_left and        *)
(* flip_right give it an impulse, and the spring brings it back to rest    *)
(* while the world steps.  The clock stays where it is.                    *)
(***************************************************************************)
KeysKept ==
  UNCHANGED <<spawnvars, launchvars, frame_log, set_index, sound_mode,
              sound_out, scores, refvars, ghostvars, ball_vel, contact>>

\* flip_left / flip_right: the impulse on the flipper body
Flip ==
  /\ flipper_vel' \in AngularGrid
  /\ UNCHANGED <<framevars, gsvars, tablevars, now, histvars>>

\* KEYDOWN of a flip key (K_LEFT, K_z, K_RIGHT, K_x); in the name entry z
\* and x are typed and an arrow key appends its empty unicode
KeysFlipDown ==
  /\ phase = "events"
  /\ IF asking_for_name
       THEN (TypeChar \/ Ignored) /\ UNCHANGED flipper_vel
       ELSE Flip
  /\ KeysKept

\* the flip keys polled after the event loop, with one of them held
KeysFlipHeld ==
  /\ phase = "events"
  /\ IF asking_for_name
       THEN Ignored /\ UNCHANGED flipper_vel
       ELSE Flip
  /\ KeysKept

\* space.step: the flipper is back at rest
KeysRest ==
  /\ phase = "step"
  /\ flipper_vel # 0
  /\ flipper_vel' = 0
  /\ plunger_raised' = (plunger_raised \/ plunger_vy < 0)
  /\ UNCHANGED <<framevars, gsvars, table_difficulty, space_gravity, balls,
                 plunger_vy, now, histvars>>
  /\ KeysKept

KeysStep ==
  /\ SpaceStep(MaxKeysScore)
  /\ UNCHANGED auxvars

NextKeys ==
  \/ KeysFlipDown
  \/ KeysFlipHeld
  \/ KeysRest
  \/ KeysStep
  \/ KeyReturn /\ UNCHANGED auxvars
  \/ KeyBackspace /\ UNCHANGED auxvars
  \/ KeyEscape /\ UNCHANGED auxvars
  \/ KeyY /\ UNCHANGED auxvars
  \/ KeyN /\ UNCHANGED auxvars
  \/ KeyR /\ UNCHANGED auxvars
  \/ KeyD /\ UNCHANGED auxvars
  \/ KeySpace /\ UNCHANGED auxvars
  \/ KeyUpSpace /\ UNCHANGED auxvars
  \/ QuitEvent /\ UNCHANGED auxvars
  \/ Update /\ UNCHANGED auxvars
  \/ StepsDone /\ UNCHANGED auxvars
  \/ FrameSkipped /\ UNCHANGED auxvars

SpecKeys == Init /\ [][NextKeys]_vars

(***************************************************************************)
(* Properties of GameState over the game loop (Spec).                      *)
(***************************************************************************)

\* the step recreates GameState: R outside name entry calls reset(), D
\* outside name entry with no ball in play calls cycle_difficulty()
ResetStep ==
  \/ KeyR /\ ~asking_for_name
  \/ KeyD /\ ~asking_for_name /\ ~ball_in_play

\* C1: score is a non-negative integer, and no step decreases it except a
\* step that recreates GameState (reset or difficulty switch), which sets it
\* to 0.
C1_ScoreMonotone ==
  /\ [](score \in Nat)
  /\ [][score' >= score \/ (ResetStep /\ score' = 0)]_vars

\* two bumper contacts have scored in this game
C1_Witness == score > 2 * BumperBase(table_difficulty) /\ combo_multiplier = 3

\* C2: in every state 0 <= balls_remaining <= starting_balls of the active
\* preset.
C2_BallsInRange ==
  /\ 0 <= balls_remaining
  /\ balls_remaining <= Current(current_index).starting_balls

\* the last ball has been lost
C2_Witness == balls_remaining = 0 /\ game_over

\* C3: an update lowers balls_remaining by exactly the number of off-table
\* balls it removes when the ball saver is inactive at the removal, and
\* leaves it alone when the saver is active; no step lowers balls_remaining
\* with the saver active (the only lowering step that starts with the saver
\* active is an update whose countdown ends the saver before the removal);
\* the collision callbacks and the actuation calls (SPACE down, SPACE up)
\* do not change it.
C3_BallsRemainingSteps ==
  [][ /\ Update =>
           balls_remaining' = IF ball_saver_active'
                                THEN balls_remaining
                                ELSE balls_remaining - Cardinality(OffTable(balls))
      /\ balls_remaining' < balls_remaining =>
           ~ball_saver_active' /\ (ball_saver_active => Update)
      /\ (PhysicsStep \/ KeySpace \/ KeyUpSpace) =>
           balls_remaining' = balls_remaining ]_vars

\* an update has just removed a ball that was not saved, and the game goes on
C3_Witness ==
  /\ phase = "step"
  /\ ~ball_in_play
  /\ ~game_over
  /\ balls = <<>>
  /\ balls_remaining < Current(current_index).starting_balls

\* C4: game_over rises exactly in an update that removes a ball with the
\* saver inactive while balls_remaining is 1; once TRUE it stays TRUE until a
\* step that recreates GameState.
C4_GameOverSteps ==
  [][ /\ (~game_over /\ game_over') <=>
           (/\ Update
            /\ balls_remaining = 1
            /\ ~ball_saver_active'
            /\ OffTable(balls) # {})
      /\ (game_over /\ ~game_over') => ResetStep ]_vars

\* the update that lost the last ball has just ended the game
C4_Witness ==
  /\ phase = "step"
  /\ game_over
  /\ balls_remaining = 0
  /\ ~ball_in_play

(***************************************************************************)
(* Properties of the scoring callbacks (SpecRally).                        *)
(***************************************************************************)

\* C5: in every state 1 <= combo_multiplier <= 5.
C5_ComboInRange == combo_multiplier \in 1..5

\* a run of bumper contacts has reached the cap
C5_Witness == same_game /\ combo_multiplier = 5

\* C6 as amended: for two consecutive bumper hits at t1 <= t2 on the same
\* GameState (no reset or difficulty switch between them), the second sets
\* combo_multiplier to min(previous + 1, 5) when t2 - t1 < 2.0 s and to 1
\* when t2 - t1 >= 2.0 s (exactly 2.0 s included), and last_hit_time to t2.
C6_GapRuleSameGame ==
  [][ (RallyBumper /\ prev_hit_time >= 0 /\ same_game) =>
        /\ combo_multiplier' = IF now - prev_hit_time < Sec(2)
                                 THEN Min(combo_multiplier + 1, 5)
                                 ELSE 1
        /\ last_hit_time' = now ]_vars

\* C6 as stated: the same for any two consecutive bumper hits.
C6_GapRule ==
  [][ (RallyBumper /\ prev_hit_time >= 0) =>
        /\ combo_multiplier' = IF now - prev_hit_time < Sec(2)
                                 THEN Min(combo_multiplier + 1, 5)
                                 ELSE 1
        /\ last_hit_time' = now ]_vars

\* a second bumper contact of the same game, 2 s or more after the first,
\* has set the combo back to 1
C6_Witness ==
  /\ same_game
  /\ prev_hit_time = now
  /\ last_hit_time = now
  /\ combo_multiplier = 1
  /\ score = 3 * BumperBase(table_difficulty)

\* no bumper contact yet on the present GameState, which is as __init__ left it
FreshGameState ==
  /\ ~same_game
  /\ score = 0
  /\ combo_multiplier = 1
  /\ last_hit_time = 0

\* C7: on a fresh GameState with NORMAL, a bumper hit at t = 0 adds 100 with
\* combo 1, a second at t = 1.5 s adds 200 with combo 2, a third at t = 4.0 s
\* adds 100 with combo 1.
C7_ThreeHits ==
  [][ (RallyBumper /\ current_index = 1) =>
        /\ (FreshGameState /\ now = 0) =>
             score' = 100 /\ combo_multiplier' = 1
        /\ (same_game /\ prev_hit_time = 0 /\ now = 3
               /\ score = 100 /\ combo_multiplier = 1) =>
             score' = 300 /\ combo_multiplier' = 2
        /\ (same_game /\ prev_hit_time = 3 /\ now = Sec(4)
               /\ score = 300 /\ combo_multiplier = 2) =>
             score' = 400 /\ combo_multiplier' = 1 ]_vars

\* C8: every bumper contact raises score by exactly
\* 100 * score_multiplier * combo_multiplier, the combo being the one after
\* the contact's own update (score_multiplier is in tenths).
C8_BumperScore ==
  [][ RallyBumper =>
        10 * (score' - score) =
          100 * Current(current_index).score_multiplier * combo_multiplier' ]_vars

\* a bumper contact at the combo cap on HARD
C8_Witness ==
  /\ current_index = 2
  /\ same_game
  /\ prev_hit_time = now
  /\ combo_multiplier = 5
  /\ score = 14 * BumperBase(table_difficulty)

\* C9: every target contact raises score by exactly
\* 500 * score_multiplier * combo_multiplier (the current combo) and leaves
\* combo_multiplier, last_hit_time, balls_remaining and the ball saver alone.
C9_TargetScore ==
  [][ RallyTarget =>
        /\ 10 * (score' - score) =
             500 * Current(current_index).score_multiplier * combo_multiplier
        /\ UNCHANGED <<combo_multiplier, last_hit_time, balls_remaining,
                       ball_saver_active, ball_saver_timer>> ]_vars

\* NORMAL, one bumper contact (combo 2, 200 points), then a target contact
\* worth 1000
C9_Witness ==
  /\ current_index = 1
  /\ same_game
  /\ now < Sec(2)
  /\ combo_multiplier = 2
  /\ score = 1200

(***************************************************************************)
(* Properties of the ball saver (SpecSaver).                               *)
(***************************************************************************)

\* the SPACE step ran create_ball()
CreateBallStep == SaverSpace /\ Len(balls') > Len(balls)

\* create_ball() leaves ball_in_play and ball_saver_active TRUE and the timer
\* at the active preset's ball_saver_duration
CreateBallEffect ==
  [][ CreateBallStep =>
        /\ ball_in_play'
        /\ ball_saver_active'
        /\ ball_saver_timer' = Current(current_index).ball_saver_duration ]_vars

C11_SavedDrain ==
  [][ /\ (SaverStep /\ DrainContactStep /\ ball_saver_active) =>
           /\ \E i \in 1..Len(balls) :
                /\ balls[i].pos = "field"
                /\ balls' = [balls EXCEPT ![i] = [pos |-> "lane", vy |-> 0]]
           /\ UNCHANGED <<balls_remaining, ball_in_play, game_over, score>>
      /\ (SaverUpdate /\ drain_contact \in {"saved", "saved_reset"}) =>
           /\ balls' = balls
           /\ UNCHANGED <<balls_remaining, ball_in_play, game_over, score>> ]_vars

\* the update after a saved drain has run and the ball is still in play
C11_Witness ==
  /\ drain_contact = "saved_done"
  /\ ball_in_play
  /\ Len(balls) = 1
  /\ balls_remaining = Current(current_index).starting_balls

\* C12: a ball-drain contact while the ball saver is inactive moves the ball
\* off-table and itself changes neither the list of balls' length,
\* balls_remaining nor ball_in_play; the next update, with no reset in
\* between, removes the ball, lowers balls_remaining by 1 and clears
\* ball_in_play.
C12_LostDrain ==
  [][ /\ (SaverStep /\ DrainContactStep /\ ~ball_saver_active) =>
           /\ \E i \in 1..Len(balls) :
                /\ balls[i].pos = "field"
                /\ balls' = [balls EXCEPT ![i] = [pos |-> "off", vy |-> 0]]
           /\ UNCHANGED <<balls_remaining, ball_in_play, game_over>>
      /\ (SaverUpdate /\ drain_contact = "lost") =>
           /\ OffTable(balls) # {}
           /\ Len(balls') = Len(balls) - 1
           /\ OffTable(balls') = {}
           /\ balls_remaining' = balls_remaining - 1
           /\ ~ball_in_play' ]_vars

\* the update after an unsaved drain has removed the ball
C12_Witness ==
  /\ drain_contact = "lost_done"
  /\ phase = "step"
  /\ balls = <<>>
  /\ ~ball_in_play
  /\ balls_remaining = Current(current_index).starting_balls - 1

(***************************************************************************)
(* Properties of launch_ball (SpecLaunch).                                 *)
(***************************************************************************)

\* C13: launch_ball(power), called by the release of SPACE, acts only when a
\* ball exists, power > 0 and the most recent ball is at 505 < x < 565 and
\* y > 600; it then sets the vertical velocity of the plunger and of that
\* ball to -2 * power; otherwise the balls and the plunger are unchanged.
\* Either way no field of GameState changes but the three the release
\* handler itself clears.
C13_LaunchBall ==
  [][ (KeyUpSpace /\ plunger_charging) =>
        /\ IF /\ Len(balls) > 0
              /\ plunger_power > 0
              /\ ball_x > 505 /\ ball_x < 565 /\ ball_y > 600
             THEN /\ plunger_vy' = -2 * plunger_power
                  /\ balls' = [balls EXCEPT ![Len(balls)].vy = -2 * plunger_power]
             ELSE UNCHANGED <<balls, plunger_vy>>
        /\ UNCHANGED <<difficulty, score, balls_remaining, ball_in_play,
                       game_over, ball_saver_active, ball_saver_timer,
                       combo_multiplier, last_hit_time, asking_for_name,
                       player_name, name_submitted, table_difficulty, space_gravity,
                       plunger_raised>> ]_vars

\* a charged release has launched the ball that sits in the lane
C13_Witness ==
  /\ Len(balls) = 1
  /\ plunger_vy < 0
  /\ balls[1].vy = plunger_vy
  /\ InPlungerLane(ball_x, ball_y)
  /\ plunger_power = 0

(***************************************************************************)
(* Properties of the order inside a frame (SpecFrame).                     *)
(***************************************************************************)

\* the number of space.step calls that returned before entry i of the log
StepsBefore(i) == StepsLogged(SubSeq(frame_log, 1, i - 1))

\* C14: in every frame the actuator commands (flip, charge, launch) come
\* before the first physics substep, and all PHYSICS_SUBSTEPS substeps have
\* completed before the frame's PinballTable.update and before its draw.
C14_FrameOrder ==
  \A i \in 1..Len(frame_log) :
    /\ frame_log[i] \in {"flip", "charge", "launch"} => StepsBefore(i) = 0
    /\ frame_log[i] = "bookkeeping" => StepsBefore(i) = PHYSICS_SUBSTEPS
    /\ (frame_log[i] = "draw" /\ Logged("bookkeeping")) =>
         StepsBefore(i) = PHYSICS_SUBSTEPS

(***************************************************************************)
(* Properties of the difficulty switch and of reset (Spec).                *)
(***************************************************************************)

\* C15: no step changes the preset (of the manager, of GameState or of the
\* table) from a state with ball_in_play TRUE, and the D key in such a state
\* changes nothing of the manager, GameState or the table.
C15_NoSwitchInPlay ==
  [][ /\ ball_in_play =>
           UNCHANGED <<current_index, difficulty, table_difficulty, space_gravity>>
      /\ (KeyD /\ ball_in_play) =>
           UNCHANGED <<current_index, gsvars, tablevars>> ]_vars

\* a ball is in play on HARD and handle_events may deliver the D key
C15_Witness ==
  /\ phase = "events"
  /\ ball_in_play
  /\ current_index = 2
  /\ Len(balls) = 1

\* the name of the preset that follows the preset named n in the cycle
NextPresetName(n) ==
  IF n = "EASY" THEN "NORMAL" ELSE IF n = "NORMAL" THEN "HARD" ELSE "EASY"

\* C16: an accepted difficulty switch moves the manager to the next preset
\* in the cycle EASY -> NORMAL -> HARD -> EASY, leaves no ball, and leaves a
\* fresh GameState of the new preset (score 0, balls_remaining = its
\* starting_balls, ball_in_play and game_over FALSE, saver inactive, combo 1,
\* plunger_power 0); the space's gravity and the table's preset are the new
\* preset's.
C16_SwitchEffect ==
  [][ (KeyD /\ ~asking_for_name /\ ~ball_in_play) =>
        /\ Current(current_index').name =
             NextPresetName(Current(current_index).name)
        /\ balls' = <<>>
        /\ difficulty' = Current(current_index')
        /\ score' = 0
        /\ balls_remaining' = Current(current_index').starting_balls
        /\ ~ball_in_play'
        /\ ~game_over'
        /\ ~ball_saver_active'
        /\ combo_multiplier' = 1
        /\ plunger_power' = 0
        /\ space_gravity' = Current(current_index').gravity
        /\ table_difficulty' = Current(current_index') ]_vars

\* the manager has wrapped around from HARD to EASY
C16_Witness ==
  /\ current_index = 0
  /\ table_difficulty.name = "EASY"
  /\ space_gravity = <<0, 3200>>
  /\ balls_remaining = 5
  /\ score = 0
  /\ balls = <<>>

\* GameState is as GameState(d) creates it
IsFreshGameState(d) ==
  /\ difficulty = d
  /\ score = 0
  /\ balls_remaining = d.starting_balls
  /\ ~ball_in_play
  /\ ~game_over
  /\ ~ball_saver_active
  /\ ball_saver_timer = 0
  /\ plunger_power = 0
  /\ ~plunger_charging
  /\ plunger_direction = 1
  /\ combo_multiplier = 1
  /\ last_hit_time = 0
  /\ ~asking_for_name
  /\ player_name = <<>>
  /\ ~name_submitted

\* C17: a reset (R outside name entry) leaves no ball and a GameState equal
\* to a freshly created one for the current preset, the preset itself
\* unchanged; a reset of a state that a reset has left changes nothing.
C17_ResetEffect ==
  [][ (KeyR /\ ~asking_for_name) =>
        /\ balls' = <<>>
        /\ current_index' = current_index
        /\ difficulty' = difficulty
        /\ table_difficulty' = table_difficulty
        /\ difficulty' = Current(current_index)
        /\ score' = 0
        /\ balls_remaining' = Current(current_index).starting_balls
        /\ ~ball_in_play'
        /\ ~game_over'
        /\ ~ball_saver_active'
        /\ ball_saver_timer' = 0
        /\ plunger_power' = 0
        /\ ~plunger_charging'
        /\ plunger_direction' = 1
        /\ combo_multiplier' = 1
        /\ last_hit_time' = 0
        /\ ~asking_for_name'
        /\ player_name' = <<>>
        /\ ~name_submitted'
        /\ (IsFreshGameState(Current(current_index)) /\ balls = <<>>) =>
             UNCHANGED vars ]_vars

\* a reset has cleared a game whose launch had raised the plunger: GameState
\* is fresh while the table, which reset keeps, is not
C17_Witness ==
  /\ phase = "events"
  /\ IsFreshGameState(Current(current_index))
  /\ balls = <<>>
  /\ plunger_raised
  /\ plunger_vy < 0

(***************************************************************************)
(* Properties of the plunger charge and of the SPACE key (Spec).           *)
(***************************************************************************)

\* C18: always 0 <= plunger_power <= plunger_max_power of the active preset
\* and plunger_direction is +1 or -1; an update while charging adds
\* charge_rate * dt * direction (dt in half seconds, hence the factors 2),
\* clamps to the maximum with direction -1 when the sum reaches or passes
\* it, and to 0 with direction +1 when the sum reaches or passes 0; an
\* update while not charging leaves both alone.
C18_PlungerCharge ==
  /\ [](/\ 0 <= plunger_power
        /\ plunger_power <= Current(current_index).plunger_max_power
        /\ plunger_direction \in {1, -1})
  /\ [][ \A dt \in 1..MaxDt :
           UpdateWith(dt) =>
             LET d   == Current(current_index)
                 sum == 2 * plunger_power
                          + d.plunger_charge_rate * dt * plunger_direction
             IN IF ~plunger_charging
                  THEN UNCHANGED <<plunger_power, plunger_direction>>
                ELSE IF sum >= 2 * d.plunger_max_power
                  THEN /\ plunger_power' = d.plunger_max_power
                       /\ plunger_direction' = -1
                ELSE IF sum <= 0
                  THEN /\ plunger_power' = 0
                       /\ plunger_direction' = 1
                ELSE /\ 2 * plunger_power' = sum
                     /\ plunger_direction' = plunger_direction ]_vars

\* the charge has turned round at the maximum and is on its way down
C18_Witness ==
  /\ plunger_charging
  /\ plunger_direction = -1
  /\ 0 < plunger_power
  /\ plunger_power < Current(current_index).plunger_max_power

\* C19: a release of SPACE while plunger_charging is TRUE launches with the
\* power held at that moment (the plunger and the most recent ball, when it
\* sits in the lane and the power is positive, get the velocity -2 * that
\* power) and then leaves plunger_power 0, plunger_direction +1 and
\* plunger_charging FALSE; a release while not charging changes nothing.
C19_Release ==
  [][ KeyUpSpace =>
        IF plunger_charging
          THEN /\ IF LaunchActs(balls, plunger_power)
                    THEN /\ plunger_vy' = -2 * plunger_power
                         /\ balls' = [balls EXCEPT ![Len(balls)].vy =
                                        -2 * plunger_power]
                    ELSE UNCHANGED <<plunger_vy, balls>>
               /\ plunger_power' = 0
               /\ plunger_direction' = 1
               /\ ~plunger_charging'
          ELSE UNCHANGED vars ]_vars

\* a charged release has launched the ball and cleared the charge
C19_Witness ==
  /\ phase = "events"
  /\ Len(balls) = 1
  /\ balls[1].pos = "lane"
  /\ balls[1].vy < 0
  /\ plunger_vy = balls[1].vy
  /\ plunger_power = 0
  /\ plunger_direction = 1
  /\ ~plunger_charging

\* C20: SPACE pressed with the game not over and no ball in play adds
\* exactly one ball, in the plunger lane; pressed with a ball in the plunger
\* lane it starts charging and adds no ball; pressed with a ball in play and
\* no ball in the lane it neither adds a ball nor changes plunger_charging.
C20_SpaceDown ==
  [][ KeySpace =>
        LET inLane == \E i \in 1..Len(balls) : balls[i].pos = "lane" IN
        /\ (~game_over /\ ~ball_in_play) =>
             balls' = Append(balls, [pos |-> "lane", vy |-> 0])
        /\ inLane =>
             plunger_charging' /\ balls' = balls
        /\ (ball_in_play /\ Len(balls) > 0 /\ ~inLane) =>
             balls' = balls /\ plunger_charging' = plunger_charging ]_vars

\* the first press has spawned the ball of a new game in the lane
C20_Witness ==
  /\ phase = "events"
  /\ Len(balls) = 1
  /\ balls[1] = [pos |-> "lane", vy |-> 0]
  /\ ball_in_play
  /\ plunger_charging
  /\ ball_saver_timer = Current(current_index).ball_saver_duration
  /\ balls_remaining = Current(current_index).starting_balls

(***************************************************************************)
(* Properties of the DifficultyManager (SpecDifficulty).                   *)
(***************************************************************************)

\* C21: set_difficulty clamps every integer index into the valid range of
\* presets (an index below 0 gives 0, one above 2 gives 2, any other is
\* kept), and after any sequence of set_difficulty and cycle_difficulty
\* calls current_index is one of 0..2, so `current` is one of the presets.
C21_IndexValid ==
  /\ current_index \in 0..2
  /\ Current(current_index) \in {DIFFICULTY_EASY, DIFFICULTY_NORMAL, DIFFICULTY_HARD}
  /\ Len(set_index) = 1 =>
       LET index == set_index[1]
       IN  current_index = (IF index < 0 THEN 0
                            ELSE IF index > 2 THEN 2 ELSE index)

\* set_difficulty was called with an index below the range after the
\* manager had been cycled to HARD or set above
C21_Witness ==
  /\ Len(set_index) = 1
  /\ set_index[1] < 0
  /\ current_index = 0

\* set_difficulty was called with an index above the range
C21_WitnessAbove ==
  /\ Len(set_index) = 1
  /\ set_index[1] > 2
  /\ current_index = 2

(***************************************************************************)
(* Independence of the audio collaborator (SpecSound).                     *)
(***************************************************************************)

\* C22: gameplay does not depend on the sound manager.  play never raises,
\* whatever the mode and the sound; and every step of a handler that asks
\* for a sound (bumper, target, spinner, wall, flipper contact, launch),
\* taken under the present mode, is from the same state and with the same
\* result on GameState and the table the step of that handler under every
\* other mode (absent, disabled, enabled, failing).  The other steps do not
\* ask for a sound.  So, from equal states and over equal events, the
\* GameState trajectories are equal.
C22_SoundIndependent ==
  [][ /\ \A mode \in SoundModes, sound_name \in SoundNames \cup {"none"} :
           Heard(mode, sound_name) # "raised"
      /\ \A mode \in SoundModes :
           /\ BumperContact(sound_mode) => BumperContact(mode)
           /\ TargetContact(sound_mode) => TargetContact(mode)
           /\ \A sound_name \in {"spinner", "wall", "flipper"} :
                OtherContact(sound_mode, sound_name) =>
                  OtherContact(mode, sound_name)
           /\ LaunchRelease(sound_mode) => LaunchRelease(mode) ]_vars

\* with failing playback a launched ball has scored on a bumper with a combo
C22_Witness ==
  /\ sound_mode = "failing"
  /\ sound_out = "swallowed"
  /\ score > BumperBase(table_difficulty)
  /\ combo_multiplier >= 2
  /\ plunger_raised

(***************************************************************************)
(* Properties of the HighScoreBoard (SpecBoard).                           *)
(***************************************************************************)

\* C23: from the empty board, after any sequence of add_score calls the
\* board holds at most 10 entries, sorted by score in non-increasing order,
\* and is_high_score(s) is true exactly when the board has fewer than 10
\* entries or s is strictly greater than the lowest stored score.
C23_Board ==
  /\ Len(scores) <= 10
  /\ \A i \in 1..Len(scores), j \in 1..Len(scores) :
       i < j => scores[i].score >= scores[j].score
  /\ \A s \in -1..(MaxBoardScore + 1) :
       IsHighScore(scores, s) <=>
         \/ Len(scores) < 10
         \/ \E i \in 1..Len(scores) :
              /\ \A j \in 1..Len(scores) : scores[i].score <= scores[j].score
              /\ s > scores[i].score

\* the board is full, with different scores and names on it: a score equal
\* to the lowest does not qualify, the next higher one does
C23_Witness ==
  /\ Len(scores) = 10
  /\ scores[1].score > scores[10].score
  /\ scores[1].name # scores[2].name
  /\ ~IsHighScore(scores, scores[10].score)
  /\ IsHighScore(scores, scores[10].score + 1)

(***************************************************************************)
(* The name entry and the high-score store (SpecEntry).                    *)
(***************************************************************************)

\* C24: add_score is called only in states where game_over is true.  The
\* name entry (asking_for_name) is open only while game_over is true and
\* the name is not submitted; it opens only from a state where game_over is
\* true, the name is not submitted and the score qualifies for the board;
\* the board changes only by a step taken inside the name entry at game
\* over; and no step taken while the name entry is open makes game_over
\* false.
C24_NameEntryAtGameOver ==
  /\ [](asking_for_name => (game_over /\ ~name_submitted))
  /\ [][ /\ (EntryReturn \/ scores' # scores) =>
              (game_over /\ game_over' /\ asking_for_name)
         /\ (~asking_for_name /\ asking_for_name') =>
              /\ game_over
              /\ ~name_submitted
              /\ \/ Len(scores) < 10
                 \/ score > scores[Len(scores)].score
         /\ asking_for_name => game_over' ]_vars

\* a game ended with a score above the full loaded board, and the name
\* typed in the name entry was stored at the top
C24_Witness ==
  /\ game_over
  /\ name_submitted
  /\ ~asking_for_name
  /\ Len(scores) = 10
  /\ scores # LoadedBoard
  /\ scores[1] = [name |-> player_name, score |-> score]
  /\ Len(player_name) >= 2

\* a game ended with a score that does not qualify: Y does not open the
\* name entry
C24_WitnessDeclined ==
  /\ game_over
  /\ ~name_submitted
  /\ ~asking_for_name
  /\ scores = LoadedBoard
  /\ score = scores[10].score

(***************************************************************************)
(* One GameState, one preset (SpecLife).                                   *)
(***************************************************************************)

\* C25: after any sequence of resets and difficulty switches there is one
\* GameState in use: the GameState the table's handlers and update mutate
\* is the one the game loop and the renderer read, the table's handlers
\* are registered on the Space the game loop steps, and the table's
\* preset, the GameState's preset, the Space's gravity and the difficulty
\* manager's current preset agree.
C25_SingleGameState ==
  /\ table_game_state_ref = game_state_ref
  /\ table_space_ref = space_ref
  /\ table_difficulty = Current(current_index)
  /\ difficulty = Current(current_index)
  /\ space_gravity = Current(current_index).gravity

\* after two difficulty switches (NORMAL, HARD, EASY) a ball of the EASY game has
\* scored on the rebuilt table
C25_Witness ==
  /\ game_state_ref = 2
  /\ current_index = 0
  /\ score > 0
  /\ ball_in_play
  /\ balls_remaining = DIFFICULTY_EASY.starting_balls

(***************************************************************************)
(* The contacts that do not score (SpecFlipper).                           *)
(***************************************************************************)

\* C26: a ball-spinner, ball-wall or ball-flipper begin contact leaves
\* every GameState field unchanged; a spinner or wall contact leaves the
\* ball's velocity to the engine; a flipper contact changes the ball's
\* velocity exactly when the flipper's absolute angular speed exceeds 5,
\* and then multiplies the horizontal velocity by 1.3 and subtracts
\* flipper_impulse * 0.015 from the vertical velocity.
C26_QuietContacts ==
  [][ /\ (SpinnerContact \/ WallContact) =>
           (UNCHANGED gsvars /\ ball_vel' = ball_vel)
      /\ FlipperContact =>
           /\ UNCHANGED gsvars
           /\ IF flipper_vel > 5 \/ flipper_vel < -5
                THEN /\ 10 * ball_vel'[1] = 13 * ball_vel[1]
                     /\ 1000 * (ball_vel[2] - ball_vel'[2]) =
                          15 * table_difficulty.flipper_impulse
                ELSE ball_vel' = ball_vel ]_vars

\* a fast flipper has hit a moving ball of an EASY game whose saver runs
C26_Witness ==
  /\ Abs(flipper_vel) = 6
  /\ ball_vel = <<13 * MaxVel, 10 * MaxVel - 1500>>
  /\ table_difficulty = DIFFICULTY_EASY
  /\ ball_in_play
  /\ ball_saver_active
  /\ ball_saver_timer < DIFFICULTY_EASY.ball_saver_duration

(***************************************************************************)
(* Contact episodes (SpecContact).                                         *)
(***************************************************************************)

\* C27: scoring and combo bookkeeping happen once per contact episode.  The
\* step in which a ball starts to touch a bumper or target adds that
\* contact's points; no step during which the ball goes on touching it
\* (a further substep, the update of a later frame, a clock tick, a key)
\* changes score, combo_multiplier or last_hit_time.
C27_OncePerContact ==
  [][ /\ (contact # "none" /\ contact' = contact) =>
           /\ score' = score
           /\ combo_multiplier' = combo_multiplier
           /\ last_hit_time' = last_hit_time
      /\ (contact = "none" /\ contact' = "bumper") =>
           /\ combo_multiplier' = ComboAfterHit(combo_multiplier, now - last_hit_time)
           /\ score' = score + BumperBase(table_difficulty) * combo_multiplier'
      /\ (contact = "none" /\ contact' = "target") =>
           /\ combo_multiplier' = combo_multiplier
           /\ score' = score + TargetBase(table_difficulty) * combo_multiplier ]_vars

\* the ball rests against a bumper in a later frame than the one in which
\* it hit it, with the points of one hit
C27_Witness ==
  /\ contact = "bumper"
  /\ phase = "events"
  /\ now > last_hit_time
  /\ combo_multiplier = 2
  /\ score = 2 * BumperBase(table_difficulty)
  /\ ball_saver_timer < table_difficulty.ball_saver_duration - 1

(***************************************************************************)
(* Balls and the end of the game over the game loop (Spec).                *)
(***************************************************************************)

\* C28: in every reachable state, game_over is true if and only if
\* balls_remaining is 0.
C28_GameOverIffNoBalls == game_over <=> (balls_remaining = 0)

\* the last ball of a game that scored has been lost
C28_Witness ==
  /\ game_over
  /\ balls_remaining = 0
  /\ ~ball_in_play
  /\ balls = <<>>
  /\ score > 0

\* C29: in every state reachable through the game loop, ball_in_play is
\* true only if the table holds at least one ball.
C29_BallInPlayHasBall == ball_in_play => Len(balls) >= 1

\* C30: at most one ball is on the table at any time, a ball is spawned
\* only from a state where ball_in_play is false and the game is not over,
\* and no update removes more than one ball.
C30_OneBall ==
  /\ [](Len(balls) <= 1)
  /\ [][ /\ Len(balls') > Len(balls) =>
              (~ball_in_play /\ ~game_over /\ Len(balls') = Len(balls) + 1)
         /\ (phase = "events" /\ phase' = "step") =>     \* an update
              /\ Len(balls') >= Len(balls) - 1
              /\ balls_remaining' >= balls_remaining - 1 ]_vars

\* the second ball of a game is on the table after the first was lost
C30_Witness ==
  /\ Len(balls) = 1
  /\ ball_in_play
  /\ ~game_over
  /\ balls_remaining = Current(current_index).starting_balls - 1

(***************************************************************************)
(* The finished game (Spec).                                               *)
(***************************************************************************)

\* C31: while game_over is true no step other than a reset or a difficulty
\* switch changes score, combo_multiplier, balls_remaining, ball_in_play,
\* ball_saver_active, ball_saver_timer or plunger_power, and none adds a
\* ball.
C31_FrozenAtGameOver ==
  [][ (game_over /\ ~ResetStep) =>
        /\ UNCHANGED <<score, combo_multiplier, balls_remaining, ball_in_play,
                       ball_saver_active, ball_saver_timer, plunger_power>>
        /\ Len(balls') <= Len(balls) ]_vars

\* the parts of C31 other than plunger_power
C31_FrozenButPower ==
  [][ (game_over /\ ~ResetStep) =>
        /\ UNCHANGED <<score, combo_multiplier, balls_remaining, ball_in_play,
                       ball_saver_active, ball_saver_timer>>
        /\ Len(balls') <= Len(balls) ]_vars

(***************************************************************************)
(* The count of lost balls (SpecLost).                                     *)
(***************************************************************************)

\* C32: in every reachable state balls_remaining plus the number of balls
\* lost (removed with the ball saver inactive) since GameState was created
\* or reset is the active preset's starting_balls; game_over holds exactly
\* when starting_balls balls have been lost.
C32_BallsAccount ==
  /\ balls_remaining + balls_lost = Current(current_index).starting_balls
  /\ game_over <=> (balls_lost = Current(current_index).starting_balls)

\* an EASY game is over with its five balls lost
C32_Witness ==
  /\ game_over
  /\ balls_lost = 5
  /\ current_index = 0
  /\ balls_remaining = 0

\* after one lost ball, a ball was removed with the saver active: it is not
\* counted
C32_WitnessSaved ==
  /\ ball_in_play
  /\ balls = <<>>
  /\ balls_lost = 1
  /\ balls_remaining = Current(current_index).starting_balls - 1

(***************************************************************************)
(* The plunger (Spec).                                                     *)
(***************************************************************************)

\* C33: in every reachable state, if plunger_charging is false then
\* plunger_power is 0 and plunger_direction is +1.
C33_IdlePlunger ==
  ~plunger_charging => (plunger_power = 0 /\ plunger_direction = 1)

\* the plunger was charged past its maximum, so that the direction turned,
\* and released
C33_Witness ==
  /\ ~plunger_charging
  /\ plunger_power = 0
  /\ plunger_direction = 1
  /\ plunger_raised
  /\ Len(balls) = 1
  /\ balls[1].vy = LaunchVelocity(table_difficulty.plunger_max_power)

(***************************************************************************)
(* Properties of the ball saver between two create_ball calls (SpecSaver). *)
(***************************************************************************)

\* the step recreates GameState (reset, or difficulty switch with no ball
\* in play)
SaverRecreated ==
  \/ SaverKeyR /\ ~asking_for_name
  \/ KeyD /\ ~asking_for_name /\ ~ball_in_play

\* a saved drain leaves the ball saver as it is, and no step other than
\* create_ball turns ball_saver_active from FALSE to TRUE
SaverArmedByCreateOnly ==
  /\ (SaverStep /\ DrainContactStep /\ ball_saver_active) =>
       UNCHANGED <<ball_saver_active, ball_saver_timer>>
  /\ ~CreateBallStep => (ball_saver_active' => ball_saver_active)

\* C34 as amended: the ball saver is armed only by create_ball: a saved
\* drain does not restart or extend it, once ball_saver_active is FALSE it
\* stays FALSE until the next create_ball, and between two create_ball calls
\* ball_saver_timer never increases, except that a step which recreates
\* GameState puts it back to 0.
C34_SaverArmedOnceButReset ==
  [][ /\ SaverArmedByCreateOnly
      /\ ~CreateBallStep =>
           \/ ball_saver_timer' <= ball_saver_timer
           \/ SaverRecreated /\ ball_saver_timer' = 0 /\ ~ball_saver_active' ]_vars

\* C34 as stated: ball_saver_timer never increases between two create_ball
\* calls.
C34_SaverArmedOnce ==
  [][ /\ SaverArmedByCreateOnly
      /\ ~CreateBallStep => ball_saver_timer' <= ball_saver_timer ]_vars

\* a drain was saved, the countdown went on to its end and the saver of the
\* ball in play is off
C34_Witness ==
  /\ drain_contact = "saved_done"
  /\ ~ball_saver_active
  /\ ball_saver_timer <= 0
  /\ ~spawn_reset
  /\ ball_in_play
  /\ Len(balls) = 1

\* the countdown ended and a reset has since put the timer at 0
C34_WitnessReset ==
  /\ spawn_reset
  /\ since_spawn = spawn_duration
  /\ since_spawn > 0
  /\ ball_saver_timer = 0
  /\ ~ball_saver_active
  /\ balls = <<>>

(***************************************************************************)
(* Properties of the score submission (SpecSubmit).                        *)
(***************************************************************************)

C35_WitnessDeclined ==
  /\ adds = 0
  /\ name_submitted
  /\ game_over
  /\ Len(scores) = 1

(***************************************************************************)
(* Properties of the keys during the name entry (SpecKeys).                *)
(***************************************************************************)

\* a key press: a KEYDOWN event, or a flip key found held by the poll that
\* follows the event loop
KeyPress ==
  \/ KeyReturn
  \/ KeyBackspace
  \/ KeyEscape
  \/ KeyY
  \/ KeyN
  \/ KeyR
  \/ KeyD
  \/ KeySpace
  \/ KeysFlipDown
  \/ KeysFlipHeld

\* C36: while asking_for_name is true every key press is consumed by the
\* name entry: it leaves the loop running and the difficulty, the table, the
\* balls, the flippers, the plunger and every GameState field outside the
\* name entry as they are (no reset, no difficulty cycling, no flip, no
\* launch, no quit), and Escape only sets asking_for_name to FALSE, with
\* name_submitted still FALSE.
C36_NameEntryConsumesKeys ==
  [][ (asking_for_name /\ KeyPress) =>
        /\ UNCHANGED <<framevars, tablevars, flipper_vel, difficulty, score,
                       balls_remaining, ball_in_play, game_over,
                       ball_saver_active, ball_saver_timer, plunger_power,
                       plunger_charging, plunger_direction, combo_multiplier,
                       last_hit_time>>
        /\ KeyEscape =>
             /\ ~asking_for_name'
             /\ ~name_submitted'
             /\ UNCHANGED player_name ]_vars

\* Escape has cancelled a name entry in which a name was typed: the loop
\* runs on, the game is still over and the name is not submitted
C36_Witness ==
  /\ ~asking_for_name
  /\ ~name_submitted
  /\ player_name # <<>>
  /\ game_over
  /\ running
  /\ phase = "events"

(***************************************************************************)
(* add_score against is_high_score (SpecBoard).                            *)
(***************************************************************************)

\* C37: on a board built by add_score calls from empty, if is_high_score(s)
\* is true then right after add_score(name, s) the board holds the entry
\* (name, s); if it is false then add_score(name, s) leaves the entries of
\* the board as they were.  The board right after add_score(name, s) is
\* ScoresAfterAdd(scores, name, s), as in AddScore.
C37_AddAgainstHighScore ==
  \A name \in BoardNames, s \in 0..MaxBoardScore :
    LET after == ScoresAfterAdd(scores, name, s) IN
    IF IsHighScore(scores, s)
      THEN \E i \in 1..Len(after) : after[i] = [name |-> name, score |-> s]
      ELSE after = scores

\* a full board on which no score up to MaxBoardScore qualifies, with
\* different names in its last two places
C37_Witness ==
  /\ Len(scores) = max_entries
  /\ \A s \in 0..MaxBoardScore : ~IsHighScore(scores, s)
  /\ scores[Len(scores) - 1].name # scores[Len(scores)].name

(***************************************************************************)
(* The launch control (Spec).                                              *)
(***************************************************************************)

\* C38: plunger_charging becomes true only on a press of SPACE made while
\* the game is not over; a press while game_over is true leaves
\* plunger_charging false.
C38_ChargeOnlyInGame ==
  [][ /\ (~plunger_charging /\ plunger_charging') => (KeySpace /\ ~game_over)
      /\ (KeySpace /\ game_over /\ ~plunger_charging) => ~plunger_charging' ]_vars

====
